---- MODULE Spec2Model ----
(***************************************************************************)
(* proto-table: the grid data model (useTableData), its undo/redo history  *)
(* (useTableHistory) and the clipboard paste handler (useClipboard).       *)
(*                                                                         *)
(* JavaScript arrays are objects with identity.  A TableData value is an   *)
(* outer array of row arrays; the hooks copy the outer array ([...data])   *)
(* but write cells into the row arrays in place, so row arrays can be      *)
(* shared between the live grid, earlier renders' grids and the data of    *)
(* history entries.  The model keeps the row arrays in a heap: a TableData *)
(* value is a sequence of row ids, heap[id] is the row's current content.  *)
(* Cell objects are never written in place (always replaced by a spread    *)
(* copy), so they are plain values.                                        *)
(*                                                                         *)
(* React state (data, history, currentIndex) is read by a handler through  *)
(* the closures of the last render: every hook function called inside one  *)
(* handler sees the same data/history/currentIndex, and of the values      *)
(* passed to one state setter the last one is the next render's state.     *)
(***************************************************************************)
EXTENDS Integers, Sequences, FiniteSets, TLC

\* Bounds of the model.
MaxRows == 2
MaxCols == 2
MaxPushes == 2
CapPushes == 51
MaxValueLen == 2
MaxTextLen == 4
MaxShrinkPushes == 3

\* Program constants.
MaxHistory == 50
DefaultWidth == 80

\* Inputs.  A string is a sequence of characters.
Values == {<<"a">>}
Widths == {120}
TAB == "\t"
LF == "\n"

VARIABLES
    heap,           \* row arrays: heap[id] is the content of row object id
    data,           \* useTableData state: the live grid, a sequence of row ids
    history,        \* useTableHistory state: the stack of entries
    currentIndex,   \* useTableHistory state: the cursor (0-based)
    now,            \* logical clock read by Date.now(); it ticks between handlers
    last,           \* the last handler that ran: its name, arguments and calls
    before,         \* cell values of the live grid before the last handler
    undoCalls,      \* history-cap scenario: undo calls in a row since the last push or redo
    sel,            \* useTableSelection state and its dragStartRef
    pin,            \* the cell of the last selectCell without Shift, while only
                    \* Shift changes and moves with Shift held followed it
    pending,        \* the paste handler waiting for the clipboard text: the
                    \* state its closure captured
    clipboard,      \* the text on the system clipboard, if any
    keyboard        \* useKeyboardEvents: isComposingRef and isEditingRef

vars == <<heap, data, history, currentIndex, now, last, before, undoCalls,
          sel, pin, pending, clipboard, keyboard>>

RECURSIVE FlattenRange(_, _, _)
FlattenRange(ss, lo, hi) ==
    IF lo > hi THEN <<>>
    ELSE IF lo = hi THEN ss[lo]
    ELSE FlattenRange(ss, lo, (lo + hi) \div 2) \o FlattenRange(ss, (lo + hi) \div 2 + 1, hi)

\* The concatenation of a sequence of sequences.
Flatten(ss) == FlattenRange(ss, 1, Len(ss))

Min2(a, b) == IF a < b THEN a ELSE b
Max2(a, b) == IF a > b THEN a ELSE b

(***************************************************************************)
(* JavaScript objects and arrays                                           *)
(***************************************************************************)

\* An array slot that holds no object (a hole, undefined, or null after JSON).
Hole == [hole |-> TRUE]

IsHole(cell) == "hole" \in DOMAIN cell

\* {...cell, [k]: v}
With(cell, k, v) ==
    IF IsHole(cell)
    THEN [x \in {k} |-> v]
    ELSE [x \in (DOMAIN cell) \cup {k} |-> IF x = k THEN v ELSE cell[x]]

Holes(n) == [i \in 1..n |-> Hole]

\* row[c] for a 0-based index c
GetAt(row, c) == IF c >= 0 /\ c < Len(row) THEN row[c + 1] ELSE Hole

\* row[c] = x for a 0-based index c >= 0 (an index past the end extends the array)
SetAt(row, c, x) ==
    IF c < Len(row)
    THEN [row EXCEPT ![c + 1] = x]
    ELSE row \o Holes(c - Len(row)) \o <<x>>

\* newData[r][c] = {...newData[r][c], [k]: v} on the row object id
WriteCell(h, id, c, k, v) == [h EXCEPT ![id] = SetAt(@, c, With(GetAt(@, c), k, v))]

\* row.pop()
Pop(row) == IF Len(row) = 0 THEN row ELSE SubSeq(row, 1, Len(row) - 1)

(***************************************************************************)
(* The state of one running handler: the data, history and currentIndex    *)
(* its functions closed over (those of the render that created them), the  *)
(* heap as written so far and the last value passed to each state setter.  *)
(***************************************************************************)

None == [set |-> FALSE, val |-> <<>>]
Some(v) == [set |-> TRUE, val |-> v]

Ctx0 ==
    [data |-> data, history |-> history, currentIndex |-> currentIndex,
     heap |-> heap, setData |-> None, setHistory |-> None,
     setCurrentIndex |-> None, pushCalls |-> 0]

\* Fresh row objects with the given contents, appended to the heap.
NewIds(h, n) == [i \in 1..n |-> Len(h) + i]

(***************************************************************************)
(* useTableHistory                                                         *)
(***************************************************************************)

SeedHistory(initialData) ==
    <<[actionType |-> "CELL_UPDATE", data |-> initialData, timestamp |-> 0]>>

\* JSON.parse(JSON.stringify(data)): new row objects with the same contents.
DeepCopyRows(h, tableData) == [i \in 1..Len(tableData) |-> h[tableData[i]]]

\* history.slice(0, currentIndex + 1)
SliceToCursor_KeepAll(h, idx) == h

SliceToCursor(h, idx) == SubSeq(h, 1, idx + 1)

\* if (newHistory.length > 50) newHistory.shift()
EvictOldest_Never(newHistory) == newHistory

EvictOldest(newHistory) ==
    IF Len(newHistory) > MaxHistory THEN Tail(newHistory) ELSE newHistory

addHistory(ctx, actionType, tableData) ==
    LET copy == NewIds(ctx.heap, Len(tableData))
        entry == [actionType |-> actionType, data |-> copy, timestamp |-> now + 1]
        newHistory == EvictOldest(SliceToCursor(ctx.history, ctx.currentIndex) \o <<entry>>)
    IN [ctx EXCEPT !.heap = @ \o DeepCopyRows(@, tableData),
                   !.setHistory = Some(newHistory),
                   !.setCurrentIndex = Some(Len(newHistory) - 1),
                   !.pushCalls = @ + 1]

\* undo(): the entry's data (no copy), or null
undo_StopsAtOne(ctx) ==
    IF ctx.currentIndex <= 1
    THEN [ctx |-> ctx, ret |-> None]
    ELSE [ctx |-> [ctx EXCEPT !.setCurrentIndex = Some(ctx.currentIndex - 1)],
          ret |-> Some(ctx.history[ctx.currentIndex].data)]

undo(ctx) ==
    IF ctx.currentIndex <= 0
    THEN [ctx |-> ctx, ret |-> None]
    ELSE [ctx |-> [ctx EXCEPT !.setCurrentIndex = Some(ctx.currentIndex - 1)],
          ret |-> Some(ctx.history[ctx.currentIndex].data)]

\* redo(): the entry's data (no copy), or null
redo_NeverMoves(ctx) ==
    IF ctx.currentIndex >= 0
    THEN [ctx |-> ctx, ret |-> None]
    ELSE [ctx |-> [ctx EXCEPT !.setCurrentIndex = Some(ctx.currentIndex + 1)],
          ret |-> Some(ctx.history[ctx.currentIndex + 2].data)]

redo(ctx) ==
    IF ctx.currentIndex >= Len(ctx.history) - 1
    THEN [ctx |-> ctx, ret |-> None]
    ELSE [ctx |-> [ctx EXCEPT !.setCurrentIndex = Some(ctx.currentIndex + 1)],
          ret |-> Some(ctx.history[ctx.currentIndex + 2].data)]

canUndo == currentIndex > 0

canRedo == currentIndex < Len(history) - 1

(***************************************************************************)
(* useTableData                                                            *)
(***************************************************************************)

updateDataWithHistory(ctx, newData, actionType) ==
    addHistory([ctx EXCEPT !.setData = Some(newData)], actionType, newData)

\* rowIndex >= 0 && rowIndex < newData.length && colIndex >= 0 && colIndex < newData[0].length
InRange(h, newData, row, col) ==
    /\ row >= 0
    /\ row < Len(newData)
    /\ col >= 0
    /\ col < Len(h[newData[1]])

updateCell_PushesAnyway(ctx, rowIndex, colIndex, value) ==
    LET newData == ctx.data
    IN updateDataWithHistory(
           [ctx EXCEPT !.heap = IF InRange(@, newData, rowIndex, colIndex)
                                THEN WriteCell(@, newData[rowIndex + 1], colIndex, "value", value)
                                ELSE @],
           newData, "CELL_UPDATE")

updateCell(ctx, rowIndex, colIndex, value) ==
    LET newData == ctx.data
    IN IF InRange(ctx.heap, newData, rowIndex, colIndex)
       THEN updateDataWithHistory(
                [ctx EXCEPT !.heap = WriteCell(@, newData[rowIndex + 1], colIndex, "value", value)],
                newData, "CELL_UPDATE")
       ELSE ctx

\* positions.forEach(...) of updateMultipleCells, on the heap
RECURSIVE WriteSame_StopsWhenOutOfRange(_, _, _, _)
WriteSame_StopsWhenOutOfRange(h, newData, positions, value) ==
    IF positions = <<>> THEN h
    ELSE LET p == Head(positions)
         IN IF InRange(h, newData, p.row, p.col)
            THEN WriteSame_StopsWhenOutOfRange(
                     WriteCell(h, newData[p.row + 1], p.col, "value", value),
                     newData, Tail(positions), value)
            ELSE h

RECURSIVE WriteSame(_, _, _, _)
WriteSame(h, newData, positions, value) ==
    IF positions = <<>> THEN h
    ELSE LET p == Head(positions)
             h1 == IF InRange(h, newData, p.row, p.col)
                   THEN WriteCell(h, newData[p.row + 1], p.col, "value", value)
                   ELSE h
         IN WriteSame(h1, newData, Tail(positions), value)

updateMultipleCells(ctx, positions, value) ==
    LET newData == ctx.data
    IN updateDataWithHistory(
           [ctx EXCEPT !.heap = WriteSame(@, newData, positions, value)],
           newData, "MULTIPLE_CELLS_UPDATE")

SetMax(S) == CHOOSE x \in S : \A y \in S : y <= x

\* maxRow / maxCol of updateMultipleCellsWithDifferentValues (start value -1)
MaxRowOf(updates) == SetMax({-1} \cup {updates[i].position.row : i \in 1..Len(updates)})

MaxColOf(updates) == SetMax({-1} \cup {updates[i].position.col : i \in 1..Len(updates)})

\* if (maxRow >= newData.length) rowsToAdd = maxRow - newData.length + 1
RowsToAdd_OffByOne(maxRow, rows) == IF maxRow >= rows THEN maxRow - rows ELSE 0

RowsToAdd(maxRow, rows) == IF maxRow >= rows THEN maxRow - rows + 1 ELSE 0

\* if (maxCol >= newData[0].length) colsToAdd = maxCol - newData[0].length + 1
ColsToAdd(maxCol, cols) == IF maxCol >= cols THEN maxCol - cols + 1 ELSE 0

\* { value: '', isEditing: false }
EmptyCell == [value |-> <<>>, isEditing |-> FALSE]

\* { value: '', isEditing: false, width }
WideCell(width) == [value |-> <<>>, isEditing |-> FALSE, width |-> width]

\* updates.forEach(...) of updateMultipleCellsWithDifferentValues, on the heap
RECURSIVE WriteEach(_, _, _)
WriteEach(h, newData, updates) ==
    IF updates = <<>> THEN h
    ELSE LET u == Head(updates)
             h1 == IF InRange(h, newData, u.position.row, u.position.col)
                   THEN WriteCell(h, newData[u.position.row + 1], u.position.col,
                                  "value", u.value)
                   ELSE h
         IN WriteEach(h1, newData, Tail(updates))

\* for (rowIndex ...) for (i < colsToAdd) newData[rowIndex].push({...}), on the heap
RECURSIVE PushCells(_, _, _)
PushCells(h, rowIds, colsToAdd) ==
    IF rowIds = <<>> THEN h
    ELSE PushCells([h EXCEPT ![Head(rowIds)] = @ \o [i \in 1..colsToAdd |-> EmptyCell]],
                   Tail(rowIds), colsToAdd)

updateMultipleCellsWithDifferentValues(ctx, updates) ==
    LET h0 == ctx.heap
        rowsToAdd == RowsToAdd(MaxRowOf(updates), Len(ctx.data))
        newRow == [j \in 1..Len(h0[ctx.data[1]]) |-> EmptyCell]
        h1 == h0 \o [i \in 1..rowsToAdd |-> newRow]
        newData == ctx.data \o NewIds(h0, rowsToAdd)
        colsToAdd == ColsToAdd(MaxColOf(updates), Len(h1[newData[1]]))
        h2 == PushCells(h1, newData, colsToAdd)
    IN updateDataWithHistory([ctx EXCEPT !.heap = WriteEach(h2, newData, updates)],
                             newData, "MULTIPLE_CELLS_UPDATE")

\* the loop of setCellWidth over the rows of newData, on the heap
RECURSIVE WriteWidths(_, _, _, _)
WriteWidths(h, rowIds, colIndex, width) ==
    IF rowIds = <<>> THEN h
    ELSE WriteWidths(WriteCell(h, Head(rowIds), colIndex, "width", width),
                     Tail(rowIds), colIndex, width)

\* the width change is not added to the history
setCellWidth(ctx, colIndex, width) ==
    LET newData == ctx.data
    IN [ctx EXCEPT !.heap = WriteWidths(@, newData, colIndex, width),
                   !.setData = Some(newData)]

\* cell.width || 80
WidthOrDefault(cell) ==
    IF "width" \in DOMAIN cell /\ cell.width # 0 THEN cell.width ELSE DefaultWidth

\* data[0].map(cell => cell.width || 80), then one new cell per column of data[0]
NewRowLike(row) ==
    [j \in 1..Len(row) |->
        IF IsHole(row[j]) THEN EmptyCell ELSE WideCell(WidthOrDefault(row[j]))]

addMultipleRows(ctx, count) ==
    IF count <= 0 THEN ctx
    ELSE LET newRow == NewRowLike(ctx.heap[ctx.data[1]])
             newData == ctx.data \o NewIds(ctx.heap, count)
         IN updateDataWithHistory([ctx EXCEPT !.heap = @ \o [i \in 1..count |-> newRow]],
                                  newData, "ADD_ROW")

addRow(ctx) ==
    LET newRow == NewRowLike(ctx.heap[ctx.data[1]])
        newData == ctx.data \o NewIds(ctx.heap, 1)
    IN updateDataWithHistory([ctx EXCEPT !.heap = @ \o <<newRow>>], newData, "ADD_ROW")

\* data.map(row => [...row, ...count new cells]): every row is a new array
addMultipleColumns(ctx, count) ==
    IF count <= 0 THEN ctx
    ELSE LET newRows == [i \in 1..Len(ctx.data) |->
                            ctx.heap[ctx.data[i]] \o [j \in 1..count |-> WideCell(DefaultWidth)]]
             newData == NewIds(ctx.heap, Len(ctx.data))
         IN updateDataWithHistory([ctx EXCEPT !.heap = @ \o newRows], newData, "ADD_COLUMN")

addColumn(ctx) ==
    LET newRows == [i \in 1..Len(ctx.data) |->
                       Append(ctx.heap[ctx.data[i]], WideCell(DefaultWidth))]
        newData == NewIds(ctx.heap, Len(ctx.data))
    IN updateDataWithHistory([ctx EXCEPT !.heap = @ \o newRows], newData, "ADD_COLUMN")

removeRow(ctx) ==
    IF Len(ctx.data) <= 1 THEN ctx
    ELSE updateDataWithHistory(ctx, Pop(ctx.data), "REMOVE_ROW")

removeColumn_RefusesTwoColumns(ctx) ==
    IF Len(ctx.heap[ctx.data[1]]) <= 2 THEN ctx
    ELSE LET newRows == [i \in 1..Len(ctx.data) |-> Pop(ctx.heap[ctx.data[i]])]
             newData == NewIds(ctx.heap, Len(ctx.data))
         IN updateDataWithHistory([ctx EXCEPT !.heap = @ \o newRows], newData, "REMOVE_COLUMN")

removeColumn(ctx) ==
    IF Len(ctx.heap[ctx.data[1]]) <= 1 THEN ctx
    ELSE LET newRows == [i \in 1..Len(ctx.data) |-> Pop(ctx.heap[ctx.data[i]])]
             newData == NewIds(ctx.heap, Len(ctx.data))
         IN updateDataWithHistory([ctx EXCEPT !.heap = @ \o newRows], newData, "REMOVE_COLUMN")

(***************************************************************************)
(* Clipboard text                                                          *)
(***************************************************************************)

\* s.split(sep)
RECURSIVE SplitFrom(_, _, _)
SplitFrom(s, sep, cur) ==
    IF s = <<>> THEN <<cur>>
    ELSE IF Head(s) = sep
         THEN <<cur>> \o SplitFrom(Tail(s), sep, <<>>)
         ELSE SplitFrom(Tail(s), sep, Append(cur, Head(s)))

split(s, sep) == SplitFrom(s, sep, <<>>)

Whitespace == {" ", TAB, LF, "\r"}

\* row.trim() !== ''
NotBlank(row) == \E i \in 1..Len(row) : row[i] \notin Whitespace

RECURSIVE Filter(_)
Filter(lines) ==
    IF lines = <<>> THEN <<>>
    ELSE IF NotBlank(Head(lines))
         THEN <<Head(lines)>> \o Filter(Tail(lines))
         ELSE Filter(Tail(lines))

\* text.split('\n').filter(row => row.trim() !== '').map(row => row.split('\t'))
ClipboardRows(text) ==
    LET lines == Filter(split(text, LF))
    IN [i \in 1..Len(lines) |-> split(lines[i], TAB)]

\* Math.max(minWidth, maxLineWidth + 16) with 8 px for each (half-width)
\* character of the longest line; minWidth for an empty text
calculateCellWidth(text) ==
    IF text = <<>> THEN DefaultWidth
    ELSE LET lines == split(text, LF)
         IN Max2(DefaultWidth, SetMax({Len(lines[i]) * 8 : i \in 1..Len(lines)}) + 16)

\* One width for each column of data[0]: the widest cell of the column, 80 at
\* least.  Reading .value of a missing cell throws: no widths then (None).
calculateColumnWidths(h, tableData) ==
    IF Len(tableData) = 0 \/ Len(h[tableData[1]]) = 0 THEN Some(<<>>)
    ELSE IF \E i \in 1..Len(tableData) : \E j \in 1..Len(h[tableData[1]]) :
               IsHole(GetAt(h[tableData[i]], j - 1))
         THEN None
         ELSE Some([j \in 1..Len(h[tableData[1]]) |->
                 SetMax({DefaultWidth} \cup
                        {calculateCellWidth(IF "value" \in DOMAIN h[tableData[i]][j]
                                            THEN h[tableData[i]][j].value ELSE <<>>) :
                           i \in 1..Len(tableData)})])

\* for (colIndex ...) for (rowIndex ...) newData[rowIndex][colIndex] = {..., width};
\* the width change is not added to the history
updateAllCellWidths(ctx) ==
    LET columnWidths == calculateColumnWidths(ctx.heap, ctx.data)
        newData == ctx.data
        written[k \in 0..Len(columnWidths.val)] ==
            IF k = 0 THEN ctx.heap
            ELSE WriteWidths(written[k - 1], newData, k - 1, columnWidths.val[k])
    IN IF ~columnWidths.set THEN ctx
       ELSE [ctx EXCEPT !.heap = written[Len(columnWidths.val)],
                        !.setData = Some(newData)]

\* The cells of rows.forEach((row, rowOffset) => cells.forEach((cellValue, colOffset) => ...))
\* in the order of the loops, each with its target position.
Placed(rows, startRow, startCol) ==
    Flatten([i \in 1..Len(rows) |->
                [j \in 1..Len(rows[i]) |->
                    [position |-> [row |-> startRow + i - 1, col |-> startCol + j - 1],
                     value |-> rows[i][j]]]])

\* targetRow < newData.length && targetCol < newData[0].length
Below(h, tableData, row, col) == row < Len(tableData) /\ col < Len(h[tableData[1]])

RECURSIVE WritePlaced(_, _, _)
WritePlaced(h, newData, placed) ==
    IF placed = <<>> THEN h
    ELSE LET u == Head(placed)
             h1 == IF Below(h, newData, u.position.row, u.position.col)
                   THEN WriteCell(h, newData[u.position.row + 1], u.position.col,
                                  "value", u.value)
                   ELSE h
         IN WritePlaced(h1, newData, Tail(placed))

\* pasteData of useTableData
pasteData(ctx, text, startRow, startCol) ==
    LET newData == ctx.data
        placed == Placed(ClipboardRows(text), startRow, startCol)
    IN updateDataWithHistory([ctx EXCEPT !.heap = WritePlaced(@, newData, placed)],
                             newData, "PASTE")

(***************************************************************************)
(* useClipboard (the hook the table component is built with)               *)
(***************************************************************************)

\* for (let i = 0; i < rowsToAdd; i++) addRow()
RECURSIVE addRowTimes(_, _)
addRowTimes(ctx, n) == IF n <= 0 THEN ctx ELSE addRowTimes(addRow(ctx), n - 1)

\* for (let i = 0; i < colsToAdd; i++) addColumn()
RECURSIVE addColumnTimes(_, _)
addColumnTimes(ctx, n) == IF n <= 0 THEN ctx ELSE addColumnTimes(addColumn(ctx), n - 1)

\* the paste loops: updateCell for every target below the bounds of tableData
RECURSIVE updateCellEach(_, _)
updateCellEach(ctx, placed) ==
    IF placed = <<>> THEN ctx
    ELSE LET u == Head(placed)
             ctx1 == IF Below(ctx.heap, ctx.data, u.position.row, u.position.col)
                     THEN updateCell(ctx, u.position.row, u.position.col, u.value)
                     ELSE ctx
         IN updateCellEach(ctx1, Tail(placed))

\* Math.max(...rows.map(row => row.split('\t').length)); -Infinity for no rows
MaxColsOf(rows) == IF rows = <<>> THEN -1000 ELSE SetMax({Len(rows[i]) : i \in 1..Len(rows)})

pasteToSelectedCells(ctx, currentCell, text) ==
    LET tableData == ctx.data
        rows == ClipboardRows(text)
        startRow == currentCell.row
        startCol == currentCell.col
        rowsToAdd == IF startRow + Len(rows) > Len(tableData)
                     THEN startRow + Len(rows) - Len(tableData) ELSE 0
        ctx1 == addRowTimes(ctx, rowsToAdd)
        maxCols == MaxColsOf(rows)
        cols == Len(ctx1.heap[tableData[1]])
        colsToAdd == IF startCol + maxCols > cols THEN startCol + maxCols - cols ELSE 0
        ctx2 == addColumnTimes(ctx1, colsToAdd)
    IN updateCellEach(ctx2, Placed(rows, startRow, startCol))

undoAction(ctx) ==
    LET r == undo(ctx)
    IN IF r.ret.set THEN [r.ctx EXCEPT !.setData = r.ret] ELSE r.ctx

redoAction(ctx) ==
    LET r == redo(ctx)
    IN IF r.ret.set THEN [r.ctx EXCEPT !.setData = r.ret] ELSE r.ctx

(***************************************************************************)
(* The render after a handler: the last value given to each setter becomes *)
(* the state.  Row objects nothing refers to any more are dropped and the  *)
(* ids renumbered in order of first reference (history, then live grid).   *)
(***************************************************************************)

\* a, then the elements of b that are not in a
Merge(a, b) == a \o SelectSeq(b, LAMBDA x : \A i \in 1..Len(a) : a[i] # x)

RECURSIVE DedupRange(_, _, _)
DedupRange(s, lo, hi) ==
    IF lo > hi THEN <<>>
    ELSE IF lo = hi THEN <<s[lo]>>
    ELSE Merge(DedupRange(s, lo, (lo + hi) \div 2), DedupRange(s, (lo + hi) \div 2 + 1, hi))

\* The elements of s in order of first occurrence.
Dedup(s) == DedupRange(s, 1, Len(s))

\* Cell values of a grid ("undefined" where a cell has no value property).
CellValue(cell) == IF "value" \in DOMAIN cell THEN cell.value ELSE <<"undefined">>

GridValues(h, tableData) ==
    [i \in 1..Len(tableData) |->
        [j \in 1..Len(h[tableData[i]]) |-> CellValue(h[tableData[i]][j])]]

\* The calls the spec lists as value or structural mutations.
Mutators ==
    {"updateCell", "updateMultipleCells", "updateMultipleCellsWithDifferentValues",
     "addRow", "addColumn", "removeRow", "removeColumn"}

\* The row ids the next state refers to, in order of first reference.
Roots(hs, d) == Dedup(Flatten([e \in 1..Len(hs) |-> hs[e].data]) \o d)

\* No paste is waiting for the clipboard.
NoPending ==
    [active |-> FALSE, data |-> <<>>, history |-> <<>>, currentIndex |-> 0,
     currentCell |-> None]

\* The row ids the closure of a waiting paste handler keeps alive.
PendingRoots(pend) ==
    Flatten([e \in 1..Len(pend.history) |-> pend.history[e].data]) \o pend.data

\* The new id of every row id in order.
Renumbering(h, order) ==
    [id \in 1..Len(h) |->
        IF \E k \in 1..Len(order) : order[k] = id
        THEN CHOOSE k \in 1..Len(order) : order[k] = id
        ELSE 0]

Commit(h, d, hs, ci, order, rank, pushCalls, op, args, pend) ==
    /\ heap' = [k \in 1..Len(order) |-> h[order[k]]]
    /\ data' = [i \in 1..Len(d) |-> rank[d[i]]]
    /\ history' = [e \in 1..Len(hs) |->
                     [hs[e] EXCEPT !.data = [i \in 1..Len(@) |-> rank[@[i]]]]]
    /\ currentIndex' = ci
    /\ now' = IF pushCalls > 0 THEN now + 1 ELSE now
    /\ last' = [op |-> op, args |-> args, pushCalls |-> pushCalls,
                afterMutation |-> (op = "undo" /\ last.op \in Mutators
                                               /\ last.pushCalls = 1),
                moved |-> (ci # currentIndex)]
    /\ before' = GridValues(heap, data)
    /\ pending' = [pend EXCEPT
                     !.data = [i \in 1..Len(@) |-> rank[@[i]]],
                     !.history = [e \in 1..Len(@) |->
                                    [@[e] EXCEPT !.data = [i \in 1..Len(@) |-> rank[@[i]]]]]]

\* The render after a handler; pend is the waiting paste handler after it.
RenderWith(ctx, op, args, pend) ==
    \E c \in {ctx} :
        \E d \in {IF c.setData.set THEN c.setData.val ELSE data},
           hs \in {IF c.setHistory.set THEN c.setHistory.val ELSE history},
           ci \in {IF c.setCurrentIndex.set THEN c.setCurrentIndex.val ELSE currentIndex} :
            \E order \in {Dedup(Roots(hs, d) \o PendingRoots(pend))} :
                \E rank \in {Renumbering(c.heap, order)} :
                    Commit(c.heap, d, hs, ci, order, rank, c.pushCalls, op, args, pend)

Render(ctx, op, args) == RenderWith(ctx, op, args, pending)

(***************************************************************************)
(* useTableSelection (the version the table component uses).  s is the     *)
(* state the handlers close over; the result is the state after the render *)
(* that follows the handler.                                               *)
(***************************************************************************)

Pos(row, col) == [row |-> row, col |-> col]

\* setCurrentCell(pos); setSelection({start: selectionAnchor, end: pos})
ExtendTo_FromCurrentCell(s, pos) ==
    [s EXCEPT !.currentCell = Some(pos),
              !.selection = Some([start |-> s.currentCell.val, end |-> pos])]

ExtendTo(s, pos) ==
    [s EXCEPT !.currentCell = Some(pos),
              !.selection = Some([start |-> s.selectionAnchor.val, end |-> pos])]

\* setCurrentCell(pos); setSelectionAnchor(pos); setSelection({start: pos, end: pos})
CollapseTo_KeepAnchor(s, pos) ==
    [s EXCEPT !.currentCell = Some(pos),
              !.selection = Some([start |-> pos, end |-> pos])]

CollapseTo(s, pos) ==
    [s EXCEPT !.currentCell = Some(pos),
              !.selectionAnchor = Some(pos),
              !.selection = Some([start |-> pos, end |-> pos])]

\* true for the cells of the rectangle between the corners of the selection
isCellSelected_CornersInOrder(s, rowIndex, colIndex) ==
    IF ~s.selection.set THEN FALSE
    ELSE /\ rowIndex >= s.selection.val.start.row
         /\ rowIndex <= s.selection.val.end.row
         /\ colIndex >= s.selection.val.start.col
         /\ colIndex <= s.selection.val.end.col

isCellSelected(s, rowIndex, colIndex) ==
    IF ~s.selection.set THEN FALSE
    ELSE /\ rowIndex >= Min2(s.selection.val.start.row, s.selection.val.end.row)
         /\ rowIndex <= Max2(s.selection.val.start.row, s.selection.val.end.row)
         /\ colIndex >= Min2(s.selection.val.start.col, s.selection.val.end.col)
         /\ colIndex <= Max2(s.selection.val.start.col, s.selection.val.end.col)

selectCell(s, row, col) ==
    IF s.isShiftPressed /\ s.selectionAnchor.set
    THEN ExtendTo(s, Pos(row, col))
    ELSE CollapseTo(s, Pos(row, col))

handleMouseDown(s, row, col, shiftKey) ==
    IF shiftKey /\ s.selectionAnchor.set
    THEN [ExtendTo(s, Pos(row, col)) EXCEPT
              !.dragStartRef = Some(Pos(row, col)), !.isDragging = TRUE]
    ELSE [CollapseTo(s, Pos(row, col)) EXCEPT
              !.dragStartRef = Some(Pos(row, col)), !.isDragging = TRUE]

handleMouseMove_WithoutDragCheck(s, row, col) ==
    [s EXCEPT !.currentCell = Some(Pos(row, col)),
              !.selection = Some([start |-> s.dragStartRef.val, end |-> Pos(row, col)])]

handleMouseMove(s, row, col) ==
    IF ~s.isDragging \/ ~s.dragStartRef.set
    THEN s
    ELSE [s EXCEPT !.currentCell = Some(Pos(row, col)),
                   !.selection = Some([start |-> s.dragStartRef.val,
                                       end |-> Pos(row, col)])]

handleMouseUp_DropsSelection(s) ==
    [s EXCEPT !.isDragging = FALSE, !.dragStartRef = None, !.selection = None]

handleMouseUp(s) == [s EXCEPT !.isDragging = FALSE, !.dragStartRef = None]

clearSelection_KeepsAnchor(s) ==
    [s EXCEPT !.currentCell = None, !.selection = None,
              !.isDragging = FALSE, !.dragStartRef = None]

clearSelection(s) ==
    [s EXCEPT !.currentCell = None, !.selection = None, !.selectionAnchor = None,
              !.isDragging = FALSE, !.dragStartRef = None]

setShiftKey(s, pressed) == [s EXCEPT !.isShiftPressed = pressed]

Directions == {"up", "down", "left", "right"}

\* The cell one step from pos, clamped to a grid of rows x cols cells.
Step(pos, direction, rows, cols) ==
    CASE direction = "up" -> Pos(Max2(0, pos.row - 1), pos.col)
      [] direction = "down" -> Pos(Min2(rows - 1, pos.row + 1), pos.col)
      [] direction = "left" -> Pos(pos.row, Max2(0, pos.col - 1))
      [] direction = "right" -> Pos(pos.row, Min2(cols - 1, pos.col + 1))

moveSelection(s, direction, rows, cols) ==
    IF ~s.currentCell.set
    THEN selectCell(s, 0, 0)
    ELSE LET new == Step(s.currentCell.val, direction, rows, cols) IN
         IF new = s.currentCell.val
         THEN s
         ELSE IF s.isShiftPressed /\ s.selectionAnchor.set
              THEN ExtendTo(s, new)
              ELSE selectCell(s, new.row, new.col)

selectAllCells(s, rows, cols) ==
    IF rows = 0 \/ cols = 0
    THEN s
    ELSE [s EXCEPT !.currentCell = Some(Pos(0, 0)),
                   !.selectionAnchor = Some(Pos(0, 0)),
                   !.selection = Some([start |-> Pos(0, 0),
                                       end |-> Pos(rows - 1, cols - 1)])]

\* The state a pasteToSelectedCells call closed over, as the handlers it calls
\* after the clipboard text arrived see it; the row arrays are the live ones.
PendingCtx ==
    [Ctx0 EXCEPT !.data = pending.data, !.history = pending.history,
                 !.currentIndex = pending.currentIndex]

\* catch (err) { console.error(...) }
pasteRejected_UndoesOneStep(ctx) == undoAction(ctx)

pasteRejected(ctx) == ctx

(***************************************************************************)
(* The clipboard text codec of the same hook (formatCellValueForExcel and  *)
(* the quote-aware reader of the pasted text), modelled from section 4.4   *)
(* of the specification and from the tests of the hook.  Texts and cell    *)
(* values are sequences of characters.                                     *)
(***************************************************************************)

QUOTE == "\""

\* CRLF -> LF, then CR -> LF
NormalizeLineEndings(s) ==
    LET n[i \in 0..Len(s)] ==
            IF i = 0 THEN <<>>
            ELSE IF s[i] = "\r"
                 THEN IF i < Len(s) /\ s[i + 1] = LF THEN n[i - 1]
                      ELSE Append(n[i - 1], LF)
                 ELSE Append(n[i - 1], s[i])
    IN n[Len(s)]

\* One cell of the copied text: line endings normalised, trailing line feeds
\* stripped, then quoted (inner quotes doubled) if it holds LF, TAB or a quote.
formatCellValueForExcel_NeverQuotes(value) ==
    LET v == NormalizeLineEndings(value)
        keep == {k \in 1..Len(v) : v[k] # LF}
    IN SubSeq(v, 1, IF keep = {} THEN 0 ELSE SetMax(keep))

formatCellValueForExcel(value) ==
    LET v == NormalizeLineEndings(value)
        keep == {k \in 1..Len(v) : v[k] # LF}
        w == SubSeq(v, 1, IF keep = {} THEN 0 ELSE SetMax(keep))
        doubled[i \in 0..Len(w)] ==
            IF i = 0 THEN <<>>
            ELSE IF w[i] = QUOTE THEN doubled[i - 1] \o <<QUOTE, QUOTE>>
                 ELSE Append(doubled[i - 1], w[i])
    IN IF \E k \in 1..Len(w) : w[k] \in {LF, TAB, QUOTE}
       THEN <<QUOTE>> \o doubled[Len(w)] \o <<QUOTE>>
       ELSE w

\* The copied text of a range of cell values: cells joined by TAB, every row
\* ended by LF.
EncodeRange(values) ==
    Flatten([i \in 1..Len(values) |->
        Flatten([j \in 1..Len(values[i]) |->
            (IF j > 1 THEN <<TAB>> ELSE <<>>) \o formatCellValueForExcel(values[i][j])])
          \o <<LF>>])

\* ch is the separator sep and is read outside quotes.
Break_AlsoInQuotes(ch, inQuotes, sep) == ch = sep

Break(ch, inQuotes, sep) == ~inQuotes /\ ch = sep

\* End of input: a pending field or row is flushed as the last row.
FlushAtEnd_Always(end) == Append(end.rows, Append(end.row, end.field))

FlushAtEnd(end) ==
    IF end.field # <<>> \/ end.row # <<>>
    THEN Append(end.rows, Append(end.row, end.field))
    ELSE end.rows

\* The rows of fields of a pasted text: one pass over the characters that
\* tracks inQuotes; what is pending at the end of the text is flushed.
Decode(text) ==
    LET t == NormalizeLineEndings(text)
        scan[i \in 0..Len(t)] ==
            IF i = 0
            THEN [rows |-> <<>>, row |-> <<>>, field |-> <<>>, inQuotes |-> FALSE,
                  skip |-> FALSE]
            ELSE LET st == scan[i - 1] IN
                 IF st.skip THEN [st EXCEPT !.skip = FALSE]
                 ELSE IF t[i] = QUOTE
                      THEN IF st.inQuotes /\ i < Len(t) /\ t[i + 1] = QUOTE
                           THEN [st EXCEPT !.field = Append(@, QUOTE), !.skip = TRUE]
                           ELSE [st EXCEPT !.inQuotes = ~@]
                 ELSE IF Break(t[i], st.inQuotes, TAB)
                      THEN [st EXCEPT !.row = Append(@, st.field), !.field = <<>>]
                 ELSE IF Break(t[i], st.inQuotes, LF)
                      THEN [st EXCEPT !.rows = Append(@, Append(st.row, st.field)),
                                      !.row = <<>>, !.field = <<>>]
                 ELSE [st EXCEPT !.field = Append(@, t[i])]
    IN FlushAtEnd(scan[Len(t)])

(***************************************************************************)
(* The paste-broadcast planner.  The hook that implements it is not among  *)
(* the sources (its tests are); it is modelled from section 4.5 of the     *)
(* specification and from what those tests expect, and it hands its plan   *)
(* to updateMultipleCellsWithDifferentValues in one call.                  *)
(***************************************************************************)

\* Top-left cell and extent (Sr x Sc) of a selection.
TopLeft(selection) ==
    Pos(Min2(selection.start.row, selection.end.row),
        Min2(selection.start.col, selection.end.col))

SelectedRows(selection) ==
    Max2(selection.start.row, selection.end.row)
        - Min2(selection.start.row, selection.end.row) + 1

SelectedCols(selection) ==
    Max2(selection.start.col, selection.end.col)
        - Min2(selection.start.col, selection.end.col) + 1

\* The values of the selected cells, row by row (the loops of copySelectedCells).
SelectedRange(h, tableData, selection) ==
    [i \in 1..SelectedRows(selection) |->
        [j \in 1..SelectedCols(selection) |->
            CellValue(h[tableData[TopLeft(selection).row + i]][TopLeft(selection).col + j])]]

\* The positions of the selected cells, row by row; none without a selection.
getSelectedCellPositions(s) ==
    IF ~s.selection.set THEN <<>>
    ELSE Flatten([i \in 1..SelectedRows(s.selection.val) |->
             [j \in 1..SelectedCols(s.selection.val) |->
                 Pos(TopLeft(s.selection.val).row + i - 1,
                     TopLeft(s.selection.val).col + j - 1)]])

\* After the copy, the selected cells are cleared in one updateMultipleCells call.
cutSelectedCells_WithoutSelectionCheck(ctx, s) ==
    updateMultipleCells(ctx, getSelectedCellPositions(s), <<>>)

cutSelectedCells(ctx, s) ==
    IF ~s.selection.set THEN ctx
    ELSE updateMultipleCells(ctx, getSelectedCellPositions(s), <<>>)

\* singleCell (1x1), singleRow (1xN, N>1), singleColumn (Mx1, M>1), rectangular
ClipboardShape(rows) ==
    CASE Len(rows) = 1 /\ MaxColsOf(rows) = 1 -> "singleCell"
      [] Len(rows) = 1 /\ MaxColsOf(rows) > 1 -> "singleRow"
      [] Len(rows) > 1 /\ MaxColsOf(rows) = 1 -> "singleColumn"
      [] OTHER -> "rectangular"

\* How many times the payload is placed downward, and rightward.
RowCopies_Once(shape, sr) == 1

RowCopies_OneMore(shape, sr) ==
    IF shape \in {"singleCell", "singleRow"} THEN sr + 1 ELSE 1

RowCopies(shape, sr) ==
    IF shape \in {"singleCell", "singleRow"} THEN sr ELSE 1

ColCopies_Once(shape, sc) == 1

ColCopies_OnlySingleCell(shape, sc) ==
    IF shape = "singleCell" THEN sc ELSE 1

ColCopies(shape, sc) ==
    IF shape \in {"singleCell", "singleColumn"} THEN sc ELSE 1

\* The writes of one paste: the payload at the anchor, repeated over the
\* selected rows and columns as its shape asks.
PlacementPlan(rows, anchor, sr, sc) ==
    LET shape == ClipboardShape(rows)
        down == RowCopies(shape, sr)
        right == ColCopies(shape, sc)
    IN Flatten([k \in 1..down |->
           Flatten([j \in 1..right |->
               Placed(rows, anchor.row + (k - 1) * Len(rows),
                            anchor.col + (j - 1) * MaxColsOf(rows))])])

pasteBroadcast(ctx, s, text) ==
    LET rows == Decode(text)
    IN IF ~s.currentCell.set \/ rows = <<>>
       THEN ctx
       ELSE IF s.selection.set
            THEN updateMultipleCellsWithDifferentValues(ctx,
                     PlacementPlan(rows, TopLeft(s.selection.val),
                                   SelectedRows(s.selection.val),
                                   SelectedCols(s.selection.val)))
            ELSE updateMultipleCellsWithDifferentValues(ctx,
                     PlacementPlan(rows, s.currentCell.val, 1, 1))

(***************************************************************************)
(* Initial state: useState(initialData) in both hooks, on a rectangular    *)
(* grid of empty cells.                                                    *)
(***************************************************************************)

InitialCell == [value |-> <<>>, isEditing |-> FALSE]

\* useKeyboardEvents: useRef(false) for isComposingRef; isEditingRef starts as
\* handlers.isEditing, which is false before any edit
NoKeyboard == [isComposingRef |-> FALSE, isEditingRef |-> FALSE]

\* useTableSelection: useState(null) thrice, useState(false) twice, useRef(null)
NoSelection ==
    [currentCell |-> None, selection |-> None, isShiftPressed |-> FALSE,
     selectionAnchor |-> None, isDragging |-> FALSE, dragStartRef |-> None]

Init ==
    \E rows \in 1..MaxRows, cols \in 1..MaxCols :
        /\ heap = [i \in 1..rows |-> [j \in 1..cols |-> InitialCell]]
        /\ data = [i \in 1..rows |-> i]
        /\ history = SeedHistory([i \in 1..rows |-> i])
        /\ currentIndex = 0
        /\ now = 0
        /\ last = [op |-> "init", args |-> <<>>, pushCalls |-> 0, afterMutation |-> FALSE,
                   moved |-> FALSE]
        /\ before = [i \in 1..rows |-> [j \in 1..cols |-> <<>>]]
        /\ undoCalls = 0
        /\ sel = NoSelection
        /\ pin = None
        /\ pending = NoPending
        /\ clipboard = None
        /\ keyboard = NoKeyboard

(***************************************************************************)
(* Handlers                                                                *)
(***************************************************************************)

\* One handler: the calls it makes, then the render.
Handle(ctx, op, args) == Render(ctx, op, args) /\ UNCHANGED <<undoCalls, sel, pin, clipboard, keyboard>>

\* Number of rows and of columns (of row 0) of the live grid.
Rows == Len(data)
Cols == Len(heap[data[1]])

Positions == [row : 0..(MaxRows - 1), col : 0..(MaxCols - 1)]

\* Position lists handed to updateMultipleCells: one or two cells.
PositionLists == {<<p>> : p \in Positions} \cup {<<p, q>> : p, q \in Positions}

\* Update lists handed to updateMultipleCellsWithDifferentValues: up to two
\* updates at different positions; a position may have a negative row.
UpdatePositions == Positions \cup {[row |-> -1, col |-> MaxCols - 1]}

Updates == [position : UpdatePositions, value : Values]

UpdateLists ==
    {<<>>} \cup {<<u>> : u \in Updates}
           \cup {<<pr[1], pr[2]>> :
                   pr \in {x \in Updates \X Updates : x[1].position # x[2].position}}

UpdateCell ==
    /\ now < MaxPushes
    /\ \E r \in -1..MaxRows, c \in -1..MaxCols, v \in Values :
          Handle(updateCell(Ctx0, r, c, v), "updateCell", <<r, c, v>>)

UpdateMultipleCells ==
    /\ now < MaxPushes
    /\ \E ps \in PositionLists, v \in Values \cup {<<>>} :
          Handle(updateMultipleCells(Ctx0, ps, v), "updateMultipleCells", <<>>)

UpdateMultipleCellsWithDifferentValues ==
    /\ now < MaxPushes
    /\ \E us \in UpdateLists :
          Handle(updateMultipleCellsWithDifferentValues(Ctx0, us),
                 "updateMultipleCellsWithDifferentValues", us)

SetCellWidth ==
    \E c \in 0..Min2(Cols, MaxCols - 1), w \in Widths :
        Handle(setCellWidth(Ctx0, c, w), "setCellWidth", <<c, w>>)

AddRow ==
    /\ now < MaxPushes
    /\ Rows < MaxRows
    /\ Handle(addRow(Ctx0), "addRow", <<>>)

AddMultipleRows ==
    /\ now < MaxPushes
    /\ \E count \in 0..(MaxRows - Rows) :
          Handle(addMultipleRows(Ctx0, count), "addMultipleRows", <<>>)

AddColumn ==
    /\ now < MaxPushes
    /\ Cols < MaxCols
    /\ Handle(addColumn(Ctx0), "addColumn", <<>>)

AddMultipleColumns ==
    /\ now < MaxPushes
    /\ \E count \in 0..(MaxCols - Cols) :
          Handle(addMultipleColumns(Ctx0, count), "addMultipleColumns", <<>>)

RemoveRow ==
    /\ now < MaxPushes
    /\ Handle(removeRow(Ctx0), "removeRow", <<>>)

RemoveColumn ==
    /\ now < MaxPushes
    /\ Handle(removeColumn(Ctx0), "removeColumn", <<>>)

\* Clipboard texts: 1x1, 1x2, 2x1 and 2x2 payloads, and two lines with an
\* empty line between them.
Texts ==
    { <<"a">>,
      <<"a", TAB, "b">>,
      <<"a", LF, "b">>,
      <<"a", LF, LF, "b">>,
      <<"a", TAB, "b", LF, "b", TAB, "a">> }

PasteData ==
    /\ now < MaxPushes
    /\ \E text \in Texts, r \in 0..(Rows - 1), c \in 0..(Cols - 1) :
          Handle(pasteData(Ctx0, text, r, c), "pasteData", <<>>)

\* Ctrl+V with the current cell at (r, c) and the clipboard holding text
PasteToSelectedCells ==
    /\ now < MaxPushes
    /\ \E text \in Texts, r \in 0..(Rows - 1), c \in 0..(Cols - 1) :
          Handle(pasteToSelectedCells(Ctx0, [row |-> r, col |-> c], text),
                 "pasteToSelectedCells", <<[row |-> r, col |-> c], text>>)

Undo ==
    /\ Render(undoAction(Ctx0), "undo", <<>>)
    /\ UNCHANGED <<undoCalls, sel, pin, clipboard, keyboard>>

Redo ==
    /\ Render(redoAction(Ctx0), "redo", <<>>)
    /\ UNCHANGED <<undoCalls, sel, pin, clipboard, keyboard>>

Next ==
    \/ UpdateCell
    \/ UpdateMultipleCells
    \/ UpdateMultipleCellsWithDifferentValues
    \/ PasteData
    \/ AddRow
    \/ AddMultipleRows
    \/ AddColumn
    \/ AddMultipleColumns
    \/ RemoveRow
    \/ RemoveColumn
    \/ Undo
    \/ Redo

Spec == Init /\ [][Next]_vars

\* Adding and removing rows and columns, one update at a time and undo, three
\* pushes deep.
SpecShrink ==
    Init /\ [][\/ /\ now < MaxShrinkPushes
                   /\ Handle(addColumn(Ctx0), "addColumn", <<>>)
                \/ /\ now < MaxShrinkPushes
                   /\ Handle(removeRow(Ctx0), "removeRow", <<>>)
                \/ /\ now < MaxShrinkPushes
                   /\ Handle(removeColumn(Ctx0), "removeColumn", <<>>)
                \/ /\ now < MaxShrinkPushes
                   /\ \E u \in Updates :
                         Handle(updateMultipleCellsWithDifferentValues(Ctx0, <<u>>),
                                "updateMultipleCellsWithDifferentValues", <<u>>)
                \/ Undo]_vars

\* Cell edits on a grid whose cells may have widths.
SpecEdit ==
    Init /\ [][\/ UpdateCell
                \/ /\ now < MaxPushes
                   /\ \E ps \in PositionLists, v \in Values \cup {<<>>} :
                         Handle(updateMultipleCells(Ctx0, ps, v), "updateMultipleCells",
                                <<ps, v>>)
                \/ SetCellWidth]_vars

\* Cell edits, width changes and undo.
SpecWidth ==
    Init /\ [][\/ UpdateCell
                \/ SetCellWidth
                \/ /\ Render(updateAllCellWidths(Ctx0), "updateAllCellWidths", <<>>)
                   /\ UNCHANGED <<undoCalls, sel, pin, clipboard, keyboard>>
                \/ Undo]_vars

\* The table component's own handlers that change the grid.
NextPaste ==
    \/ PasteToSelectedCells
    \/ AddRow
    \/ AddColumn
    \/ Undo
    \/ Redo

SpecPaste == Init /\ [][NextPaste]_vars

\* The history-cap scenario: a 1 x 1 grid whose cell is edited until more
\* entries than the cap were pushed; from then on the user also undoes and redoes.
InitCap == Init /\ Rows = 1 /\ Cols = 1

CapUpdateCell ==
    /\ now < CapPushes
    /\ \E v \in Values : Render(updateCell(Ctx0, 0, 0, v), "updateCell", <<>>)
    /\ undoCalls' = 0
    /\ UNCHANGED <<sel, pin, clipboard, keyboard>>

CapUndo ==
    /\ now > MaxHistory
    /\ Render(undoAction(Ctx0), "undo", <<>>)
    /\ undoCalls' = Min2(undoCalls + 1, MaxHistory)
    /\ UNCHANGED <<sel, pin, clipboard, keyboard>>

CapRedo ==
    /\ now > MaxHistory
    /\ Render(redoAction(Ctx0), "redo", <<>>)
    /\ undoCalls' = 0
    /\ UNCHANGED <<sel, pin, clipboard, keyboard>>

NextCap ==
    \/ CapUpdateCell
    \/ CapUndo
    \/ CapRedo

SpecCap == InitCap /\ [][NextCap]_vars

\* The selection handlers of the table component, on the grid as rendered.
GridVars ==
    <<heap, data, history, currentIndex, now, before, undoCalls, pending, clipboard,
      keyboard>>

SelStep(s2, op, args, pin2) ==
    /\ sel' = s2
    /\ pin' = pin2
    /\ last' = [op |-> op, args |-> args, pushCalls |-> 0, afterMutation |-> FALSE,
                moved |-> FALSE]

GridPositions == {p \in Positions : p.row < Rows /\ p.col < Cols}

SelectCell ==
    /\ \E p \in GridPositions :
          SelStep(selectCell(sel, p.row, p.col), "selectCell", <<p>>,
                  IF sel.isShiftPressed THEN None ELSE Some(p))
    /\ UNCHANGED GridVars

SetShiftKey ==
    /\ \E pressed \in BOOLEAN :
          SelStep(setShiftKey(sel, pressed), "setShiftKey", <<pressed>>, pin)
    /\ UNCHANGED GridVars

MoveSelection ==
    /\ \E direction \in Directions :
          SelStep(moveSelection(sel, direction, Rows, Cols), "moveSelection",
                  <<direction>>, IF sel.isShiftPressed THEN pin ELSE None)
    /\ UNCHANGED GridVars

HandleMouseDown ==
    /\ \E p \in GridPositions, shiftKey \in BOOLEAN :
          SelStep(handleMouseDown(sel, p.row, p.col, shiftKey), "handleMouseDown",
                  <<p, shiftKey>>, None)
    /\ UNCHANGED GridVars

HandleMouseMove ==
    /\ \E p \in GridPositions :
          SelStep(handleMouseMove(sel, p.row, p.col), "handleMouseMove", <<p>>, None)
    /\ UNCHANGED GridVars

HandleMouseUp ==
    /\ SelStep(handleMouseUp(sel), "handleMouseUp", <<>>, None)
    /\ UNCHANGED GridVars

ClearSelection ==
    /\ SelStep(clearSelection(sel), "clearSelection", <<>>, None)
    /\ UNCHANGED GridVars

SelectAllCells ==
    /\ SelStep(selectAllCells(sel, Rows, Cols), "selectAllCells", <<>>, None)
    /\ UNCHANGED GridVars

NextSel ==
    \/ SelectCell
    \/ SetShiftKey
    \/ MoveSelection
    \/ HandleMouseDown
    \/ HandleMouseMove
    \/ HandleMouseUp
    \/ ClearSelection
    \/ SelectAllCells

SpecSel == Init /\ [][NextSel]_vars

\* The selection handlers called with any position, inside the grid or not.
SpecAnyPosition ==
    Init /\ [][\/ /\ \E p \in UpdatePositions :
                        SelStep(selectCell(sel, p.row, p.col), "selectCell", <<p>>,
                                IF sel.isShiftPressed THEN None ELSE Some(p))
                   /\ UNCHANGED GridVars
                \/ /\ \E p \in UpdatePositions, shiftKey \in BOOLEAN :
                        SelStep(handleMouseDown(sel, p.row, p.col, shiftKey),
                                "handleMouseDown", <<p, shiftKey>>, None)
                   /\ UNCHANGED GridVars
                \/ /\ \E p \in UpdatePositions :
                        SelStep(handleMouseMove(sel, p.row, p.col), "handleMouseMove",
                                <<p>>, None)
                   /\ UNCHANGED GridVars
                \/ HandleMouseUp
                \/ SetShiftKey]_vars

\* Ctrl+V: pasteToSelectedCells runs up to "await navigator.clipboard.readText()"
PasteInvoke ==
    /\ ~pending.active
    /\ sel.currentCell.set
    /\ RenderWith(Ctx0, "pasteInvoke", <<>>,
                  [active |-> TRUE, data |-> data, history |-> history,
                   currentIndex |-> currentIndex, currentCell |-> sel.currentCell])
    /\ UNCHANGED <<undoCalls, sel, pin, clipboard, keyboard>>

\* readText() resolves with text: the rest of the try block runs
PasteResolve ==
    /\ pending.active
    /\ now < MaxPushes
    /\ \E text \in Texts :
          RenderWith(pasteToSelectedCells(PendingCtx, pending.currentCell.val, text),
                     "pasteResolve", <<text>>, NoPending)
    /\ UNCHANGED <<undoCalls, sel, pin, clipboard, keyboard>>

\* readText() rejects: the catch block runs
PasteReject ==
    /\ pending.active
    /\ RenderWith(pasteRejected(PendingCtx), "pasteReject", <<>>, NoPending)
    /\ UNCHANGED <<undoCalls, sel, pin, clipboard, keyboard>>

\* The table with a paste that may wait for the clipboard while the user goes on.
NextAsync ==
    \/ SelectCell
    \/ PasteInvoke
    \/ PasteResolve
    \/ PasteReject
    \/ UpdateCell
    \/ AddRow
    \/ Undo

SpecAsync == Init /\ [][NextAsync]_vars

\* Ctrl+V with the broadcasting paste, on the selection as rendered
PasteBroadcast ==
    /\ now < MaxPushes
    /\ sel.currentCell.set
    /\ \E text \in Texts :
          Render(pasteBroadcast(Ctx0, sel, text), "pasteBroadcast", <<text>>)
    /\ UNCHANGED <<undoCalls, sel, pin, clipboard, keyboard>>

\* The table with mouse selection and the broadcasting paste.
NextBroadcast ==
    \/ HandleMouseDown
    \/ HandleMouseMove
    \/ PasteBroadcast

SpecBroadcast == Init /\ [][NextBroadcast]_vars

\* Ctrl+V with the paste of useClipboard, on the current cell as rendered
PasteAtCurrentCell ==
    /\ now < MaxPushes
    /\ sel.currentCell.set
    /\ \E text \in Texts :
          Render(pasteToSelectedCells(Ctx0, sel.currentCell.val, text),
                 "pasteToSelectedCells", <<sel.currentCell.val, text>>)
    /\ UNCHANGED <<undoCalls, sel, pin, clipboard, keyboard>>

\* The table with mouse selection and the paste of useClipboard.
NextAnchor ==
    \/ HandleMouseDown
    \/ HandleMouseMove
    \/ PasteAtCurrentCell

SpecAnchor == Init /\ [][NextAnchor]_vars

\* The codec scenario: a grid of one or two cells whose values hold any
\* characters, or a grid of empty cells with a text of another application on
\* the clipboard.
InitCodec ==
    \E shape \in {<<1, 1>>, <<1, 2>>, <<2, 1>>} :
      \E values \in [1..shape[1] -> [1..shape[2] ->
                        UNION {[1..n -> {"a", TAB, LF, "\r", QUOTE}] : n \in 0..MaxValueLen}]],
         clip \in {None} \cup
                  {Some(t) : t \in UNION {[1..n -> {"a", TAB, LF, "\r", QUOTE}] :
                                             n \in 1..MaxTextLen}} :
        /\ clip.set => \A i \in 1..shape[1] : \A j \in 1..shape[2] : values[i][j] = <<>>
        /\ heap = [i \in 1..shape[1] |->
                     [j \in 1..shape[2] |-> [value |-> values[i][j], isEditing |-> FALSE]]]
        /\ data = [i \in 1..shape[1] |-> i]
        /\ history = SeedHistory([i \in 1..shape[1] |-> i])
        /\ currentIndex = 0
        /\ now = 0
        /\ last = [op |-> "init", args |-> <<>>, pushCalls |-> 0, afterMutation |-> FALSE,
                   moved |-> FALSE]
        /\ before = values
        /\ undoCalls = 0
        /\ sel = NoSelection
        /\ pin = None
        /\ pending = NoPending
        /\ clipboard = clip
        /\ keyboard = NoKeyboard

\* Ctrl+C: the selected range is written to the clipboard as text
CopySelectedCells ==
    /\ sel.selection.set
    /\ clipboard' = Some(EncodeRange(SelectedRange(heap, data, sel.selection.val)))
    /\ last' = [op |-> "copySelectedCells", args |-> <<>>, pushCalls |-> 0,
                afterMutation |-> FALSE, moved |-> FALSE]
    /\ UNCHANGED <<heap, data, history, currentIndex, now, before, undoCalls,
                   sel, pin, pending, keyboard>>

\* Ctrl+V: the text on the clipboard is read and pasted
PasteClipboard ==
    /\ now < MaxPushes
    /\ clipboard.set
    /\ sel.currentCell.set
    /\ Render(pasteBroadcast(Ctx0, sel, clipboard.val), "pasteBroadcast", <<clipboard.val>>)
    /\ UNCHANGED <<undoCalls, sel, pin, clipboard, keyboard>>

\* Ctrl+X: the copy first, then the selected cells are cleared
CutSelectedCells ==
    /\ now < MaxPushes
    /\ clipboard' = IF sel.selection.set
                    THEN Some(EncodeRange(SelectedRange(heap, data, sel.selection.val)))
                    ELSE clipboard
    /\ Render(cutSelectedCells(Ctx0, sel), "cutSelectedCells", <<>>)
    /\ UNCHANGED <<undoCalls, sel, pin, keyboard>>

SpecCodec ==
    InitCodec /\ [][SelectAllCells \/ CopySelectedCells \/ PasteClipboard]_vars

SpecCut ==
    InitCodec /\ [][HandleMouseDown \/ CutSelectedCells]_vars

\* safeRemoveRow of the table component: nothing on a grid of one row; the
\* selection is cleared when it covers the last row; then removeRow.
SafeRemoveRow ==
    /\ now < MaxPushes
    /\ Rows > 1
    /\ LET lastRowIndex == Rows - 1
           isLastRowSelected ==
               /\ sel.selection.set
               /\ Min2(sel.selection.val.start.row, sel.selection.val.end.row) <= lastRowIndex
               /\ Max2(sel.selection.val.start.row, sel.selection.val.end.row) >= lastRowIndex
       IN  /\ sel' = IF isLastRowSelected THEN clearSelection(sel) ELSE sel
           /\ Render(removeRow(Ctx0), "safeRemoveRow", <<>>)
    /\ UNCHANGED <<undoCalls, pin, clipboard, keyboard>>

\* safeRemoveColumn of the table component, likewise on the last column.
SafeRemoveColumn ==
    /\ now < MaxPushes
    /\ Cols > 1
    /\ LET lastColIndex == Cols - 1
           isLastColSelected ==
               /\ sel.selection.set
               /\ Min2(sel.selection.val.start.col, sel.selection.val.end.col) <= lastColIndex
               /\ Max2(sel.selection.val.start.col, sel.selection.val.end.col) >= lastColIndex
       IN  /\ sel' = IF isLastColSelected THEN clearSelection(sel) ELSE sel
           /\ Render(removeColumn(Ctx0), "safeRemoveColumn", <<>>)
    /\ UNCHANGED <<undoCalls, pin, clipboard, keyboard>>

\* The assembled table: selection by click and Shift+click, the row and column
\* buttons, paste at the current cell, undo and redo.
SpecTable ==
    Init /\ [][SelectCell \/ HandleMouseDown \/ AddRow \/ AddColumn
                \/ SafeRemoveRow \/ SafeRemoveColumn \/ PasteAtCurrentCell
                \/ Undo \/ Redo]_vars

\* The keys and modifier flags of the keydown events.
Keys ==
    {"Escape", "Enter", "Tab", "Shift", "ArrowUp", "ArrowDown", "ArrowLeft",
     "ArrowRight", "Delete", "Backspace", "a", "A", "c", "x", "v", "z", "Y", "?", "b"}

KeyboardEvents ==
    [key : Keys, ctrlKey : BOOLEAN, metaKey : BOOLEAN, shiftKey : BOOLEAN,
     altKey : BOOLEAN]

\* e.key.toLowerCase() on the keys above.
toLowerCase(key) ==
    CASE key = "A" -> "a"
      [] key = "Y" -> "y"
      [] key = "Escape" -> "escape"
      [] key = "Enter" -> "enter"
      [] key = "Tab" -> "tab"
      [] key = "Shift" -> "shift"
      [] key = "ArrowUp" -> "arrowup"
      [] key = "ArrowDown" -> "arrowdown"
      [] key = "ArrowLeft" -> "arrowleft"
      [] key = "ArrowRight" -> "arrowright"
      [] key = "Delete" -> "delete"
      [] key = "Backspace" -> "backspace"
      [] OTHER -> key

\* One call of a handler of the handlers object.
Call(handler, args) == [handler |-> handler, args |-> args]

\* handleKeyDown: the calls it makes on the handlers, in order.
handleKeyDown_EnterIgnoresShift(k, e) ==
    LET ctrlOrMeta == e.ctrlKey \/ e.metaKey
        lower == toLowerCase(e.key)
    IN
    IF k.isComposingRef THEN <<>>
    ELSE (IF e.key = "Shift" THEN <<Call("setShiftKey", <<TRUE>>)>> ELSE <<>>) \o
         (IF k.isEditingRef
          THEN CASE e.key = "Escape" -> <<Call("stopEditing", <<FALSE>>)>>
                 [] e.key = "Enter" /\ e.altKey -> <<>>
                 [] e.key = "Enter" /\ ~e.altKey ->
                        <<Call("stopEditing", <<TRUE>>), Call("moveSelection", <<"down">>)>>
                 [] e.key = "Tab" ->
                        <<Call("stopEditing", <<TRUE>>),
                          Call("moveSelection", <<IF e.shiftKey THEN "left" ELSE "right">>)>>
                 [] OTHER -> <<>>
          ELSE IF e.key = "Escape" THEN <<Call("clearSelection", <<>>)>>
          ELSE IF ctrlOrMeta /\ lower = "a" THEN <<Call("selectAllCells", <<>>)>>
          ELSE IF e.key \in {"ArrowUp", "ArrowDown", "ArrowLeft", "ArrowRight"}
               THEN <<Call("moveSelection",
                           <<CASE e.key = "ArrowUp" -> "up"
                               [] e.key = "ArrowDown" -> "down"
                               [] e.key = "ArrowLeft" -> "left"
                               [] e.key = "ArrowRight" -> "right">>)>>
          ELSE IF e.key = "Tab"
               THEN <<Call("moveSelection", <<IF e.shiftKey THEN "left" ELSE "right">>)>>
          ELSE IF e.key = "Delete" \/ e.key = "Backspace"
               THEN <<Call("clearSelectedCells", <<>>)>>
          ELSE IF ctrlOrMeta /\ lower = "c" THEN <<Call("copySelectedCells", <<>>)>>
          ELSE IF ctrlOrMeta /\ lower = "x" THEN <<Call("cutSelectedCells", <<>>)>>
          ELSE IF ctrlOrMeta /\ lower = "v" THEN <<Call("pasteToSelectedCells", <<>>)>>
          ELSE IF ctrlOrMeta /\ lower = "z" THEN <<Call("undo", <<>>)>>
          ELSE IF ctrlOrMeta /\ lower = "y" THEN <<Call("redo", <<>>)>>
          ELSE IF e.shiftKey /\ e.key = "?" THEN <<Call("showShortcutHelp", <<>>)>>
          ELSE <<>>)

handleKeyDown(k, e) ==
    LET ctrlOrMeta == e.ctrlKey \/ e.metaKey
        lower == toLowerCase(e.key)
    IN
    IF k.isComposingRef THEN <<>>
    ELSE (IF e.key = "Shift" THEN <<Call("setShiftKey", <<TRUE>>)>> ELSE <<>>) \o
         (IF k.isEditingRef
          THEN CASE e.key = "Escape" -> <<Call("stopEditing", <<FALSE>>)>>
                 [] e.key = "Enter" /\ e.altKey -> <<>>
                 [] e.key = "Enter" /\ ~e.altKey /\ ~e.shiftKey ->
                        <<Call("stopEditing", <<TRUE>>), Call("moveSelection", <<"down">>)>>
                 [] e.key = "Tab" ->
                        <<Call("stopEditing", <<TRUE>>),
                          Call("moveSelection", <<IF e.shiftKey THEN "left" ELSE "right">>)>>
                 [] OTHER -> <<>>
          ELSE IF e.key = "Escape" THEN <<Call("clearSelection", <<>>)>>
          ELSE IF ctrlOrMeta /\ lower = "a" THEN <<Call("selectAllCells", <<>>)>>
          ELSE IF e.key \in {"ArrowUp", "ArrowDown", "ArrowLeft", "ArrowRight"}
               THEN <<Call("moveSelection",
                           <<CASE e.key = "ArrowUp" -> "up"
                               [] e.key = "ArrowDown" -> "down"
                               [] e.key = "ArrowLeft" -> "left"
                               [] e.key = "ArrowRight" -> "right">>)>>
          ELSE IF e.key = "Tab"
               THEN <<Call("moveSelection", <<IF e.shiftKey THEN "left" ELSE "right">>)>>
          ELSE IF e.key = "Delete" \/ e.key = "Backspace"
               THEN <<Call("clearSelectedCells", <<>>)>>
          ELSE IF ctrlOrMeta /\ lower = "c" THEN <<Call("copySelectedCells", <<>>)>>
          ELSE IF ctrlOrMeta /\ lower = "x" THEN <<Call("cutSelectedCells", <<>>)>>
          ELSE IF ctrlOrMeta /\ lower = "v" THEN <<Call("pasteToSelectedCells", <<>>)>>
          ELSE IF ctrlOrMeta /\ lower = "z" THEN <<Call("undo", <<>>)>>
          ELSE IF ctrlOrMeta /\ lower = "y" THEN <<Call("redo", <<>>)>>
          ELSE IF e.shiftKey /\ e.key = "?" THEN <<Call("showShortcutHelp", <<>>)>>
          ELSE <<>>)

\* A step of the keyboard hook; the handlers are the hook's parameters, and the
\* calls a keydown makes on them are recorded in last.args.
KeyboardStep(k2, op, args) ==
    /\ keyboard' = k2
    /\ last' = [op |-> op, args |-> args, pushCalls |-> 0, afterMutation |-> FALSE,
                moved |-> FALSE]

\* What the keyboard hook does not hold: the state of the other hooks.
TableVars ==
    <<heap, data, history, currentIndex, now, before, undoCalls, sel, pin, pending,
      clipboard>>

HandleKeyDown ==
    /\ \E e \in KeyboardEvents :
          KeyboardStep(keyboard, "handleKeyDown", <<e, handleKeyDown(keyboard, e)>>)
    /\ UNCHANGED TableVars

\* The keyboard hook: keydown events, the start and the end of an IME
\* composition, and updateHandlers with the edit mode of the cell editor.
SpecKeyboard ==
    Init /\ [][\/ HandleKeyDown
                \/ /\ KeyboardStep([keyboard EXCEPT !.isComposingRef = TRUE],
                                    "handleCompositionStart", <<>>)
                   /\ UNCHANGED TableVars
                \/ /\ KeyboardStep([keyboard EXCEPT !.isComposingRef = FALSE],
                                    "handleCompositionEnd", <<>>)
                   /\ UNCHANGED TableVars
                \/ /\ \E isEditing \in BOOLEAN :
                          KeyboardStep([keyboard EXCEPT !.isEditingRef = isEditing],
                                       "updateHandlers", <<isEditing>>)
                   /\ UNCHANGED TableVars]_vars

(***************************************************************************)
(* Claims                                                                  *)
(***************************************************************************)

IsRectangular(h, tableData) ==
    \A i \in 1..Len(tableData) : Len(h[tableData[i]]) = Len(h[tableData[1]])

LiveValues == GridValues(heap, data)

\* The timestamps of the entries of a stack (one per pushing handler; 0 is the seed).
Stamps(hs) == {hs[i].timestamp : i \in 1..Len(hs)}

\* C1: in every reachable state all rows of the live grid have the same length.
C1_LiveGridRectangular == IsRectangular(heap, data)

\* C2: a stored history snapshot (the seed included) never changes its cell values
\* or its dimensions while it stays on the stack.
C2_SnapshotsNeverChange ==
    [][\A i \in 1..Len(history) : \A j \in 1..Len(history') :
          history[i].timestamp = history'[j].timestamp
              => GridValues(heap, history[i].data) = GridValues(heap', history'[j].data)]_vars

\* C3: a mutation issued in its own handler, followed by undo, yields the grid as
\* it was before the mutation (dimensions and cell values); a following redo
\* yields the grid as it was right after the mutation.
C3_UndoRestoresRedoReapplies ==
    [][/\ (last.op \in Mutators /\ last.pushCalls = 1 /\ last'.op = "undo")
            => GridValues(heap', data') = before
       /\ (last.op = "undo" /\ last.afterMutation /\ last'.op = "redo")
            => GridValues(heap', data') = before]_vars

\* C4: a handler that makes k pushing calls adds k entries on top of the entries
\* up to the cursor (at most the cap is kept), also for k > 1.
C4_OneEntryPerCall ==
    [][last'.pushCalls > 0
          => Len(history') = Min2(currentIndex + 1 + last'.pushCalls, MaxHistory)]_vars

\* C5: one paste adds exactly one entry on top of the entries up to the cursor,
\* and one undo after the paste restores the grid as it was before the paste.
C5_PasteIsOneUndoStep ==
    [][/\ last'.op = "pasteToSelectedCells"
            => Len(history') = Min2(currentIndex + 2, MaxHistory)
       /\ (last.op = "pasteToSelectedCells" /\ last'.op = "undo")
            => GridValues(heap', data') = before]_vars

\* Number of rows and of columns of the payload of a clipboard text.
PayloadRows(text) == Len(ClipboardRows(text))
PayloadCols(text) == MaxColsOf(ClipboardRows(text))

\* C6: after a paste whose bottom-right target cell lies outside the grid, the grid
\* has max(rows, anchor.row + R) rows and max(cols, anchor.col + C) columns, is
\* rectangular, and holds every clipboard cell at anchor + offset.
C6_PasteGrowsGrid ==
    last.op = "pasteToSelectedCells" =>
        LET anchor == last.args[1]
            text == last.args[2]
            rows0 == Len(before)
            cols0 == Len(before[1])
            placed == Placed(ClipboardRows(text), anchor.row, anchor.col)
        IN (anchor.row + PayloadRows(text) > rows0 \/ anchor.col + PayloadCols(text) > cols0)
           => /\ Len(data) = Max2(rows0, anchor.row + PayloadRows(text))
              /\ Len(heap[data[1]]) = Max2(cols0, anchor.col + PayloadCols(text))
              /\ IsRectangular(heap, data)
              /\ \A k \in 1..Len(placed) :
                    LET p == placed[k].position
                    IN /\ p.row < Len(data)
                       /\ p.col < Len(heap[data[p.row + 1]])
                       /\ CellValue(heap[data[p.row + 1]][p.col + 1]) = placed[k].value

\* C7: updateMultipleCellsWithDifferentValues adds max(0, maxRow - rows + 1) rows
\* and max(0, maxCol - cols + 1) columns of empty cells and then writes every
\* update whose position is not negative; a rectangular grid stays rectangular.
C7_DistinctUpdatesGrowThenWrite ==
    last.op = "updateMultipleCellsWithDifferentValues" =>
        LET us == last.args
            rows0 == Len(before)
            cols0 == Len(before[1])
            rowsAdded == Max2(0, MaxRowOf(us) - rows0 + 1)
            colsAdded == Max2(0, MaxColOf(us) - cols0 + 1)
            targets == {us[k].position : k \in 1..Len(us)}
            oldLen(i) == IF i <= rows0 THEN Len(before[i]) ELSE 0
            newLen(i) == IF i <= rows0 THEN Len(before[i]) + colsAdded ELSE cols0 + colsAdded
        IN /\ Len(data) = rows0 + rowsAdded
           /\ Len(heap[data[1]]) = cols0 + colsAdded
           /\ \A i \in 1..Len(data) : Len(heap[data[i]]) >= newLen(i)
           /\ (\A i \in 1..rows0 : Len(before[i]) = cols0) => IsRectangular(heap, data)
           /\ \A k \in 1..Len(us) :
                 LET p == us[k].position
                 IN (p.row >= 0 /\ p.col >= 0)
                    => /\ p.row < Len(data)
                       /\ p.col < Len(heap[data[p.row + 1]])
                       /\ CellValue(heap[data[p.row + 1]][p.col + 1]) = us[k].value
           /\ \A i \in 1..Len(data) : \A j \in 1..newLen(i) :
                 [row |-> i - 1, col |-> j - 1] \notin targets
                    => CellValue(heap[data[i]][j]) =
                           IF j <= oldLen(i) THEN before[i][j] ELSE <<>>

\* C7 witness: the call grew the grid by a row and a column and wrote into the new row.
C7_Witness ==
    /\ last.op = "updateMultipleCellsWithDifferentValues"
    /\ Len(data) > Len(before)
    /\ Len(heap[data[1]]) > Len(before[1])
    /\ \E k \in 1..Len(last.args) : last.args[k].position.row >= Len(before)

\* C8: a handler that pushes leaves no entry after the cursor: canRedo is false and
\* every entry that was after the cursor (an undone state) is gone from the stack.
C8_PushDropsRedoEntries ==
    [][last'.pushCalls > 0
          => /\ currentIndex' = Len(history') - 1
             /\ \A i \in (currentIndex + 2)..Len(history) :
                   history[i].timestamp \notin Stamps(history')
             /\ history'[Len(history')].timestamp = now']_vars

\* C8 witness: after a push, fewer entries than were ever pushed (below the cap):
\* undone entries were dropped.
C8_Witness ==
    /\ last.pushCalls > 0
    /\ ~canRedo
    /\ now < MaxHistory
    /\ Len(history) - 1 < now

\* C9: the stack holds between 1 and 50 entries and 0 <= cursor <= length - 1; a
\* push onto a full stack evicts exactly the oldest entry and leaves the cursor on
\* the appended, last entry.
C9_StackBounded ==
    /\ [](/\ Len(history) >= 1
          /\ Len(history) <= MaxHistory
          /\ currentIndex >= 0
          /\ currentIndex <= Len(history) - 1)
    /\ [][(last'.pushCalls > 0 /\ currentIndex + 2 > MaxHistory)
             => /\ Len(history') = MaxHistory
                /\ currentIndex' = Len(history') - 1
                /\ history'[Len(history')].timestamp = now'
                /\ \A i \in 2..(currentIndex + 1) :
                      history'[i - 1].timestamp = history[i].timestamp]_vars

\* C9 witness: a push onto a full stack has evicted the seed.
C9_Witness ==
    /\ last.pushCalls > 0
    /\ Len(history) = MaxHistory
    /\ currentIndex = MaxHistory - 1
    /\ 0 \notin Stamps(history)

\* C10: after more pushes than the cap, canUndo is true after a push, the seed
\* entry (the initial grid) is off the stack, and after cap undo calls in a row the
\* live grid is the earliest retained snapshot.
C10_UndoStopsAtEarliestRetained ==
    now > MaxHistory =>
        /\ last.pushCalls > 0 => canUndo
        /\ 0 \notin Stamps(history)
        /\ undoCalls >= MaxHistory
              => /\ currentIndex = 0
                 /\ data = history[1].data
                 /\ LiveValues = GridValues(heap, history[1].data)
                 /\ history[1].timestamp > 0

\* C10 witness: cap undo calls in a row after more pushes than the cap.
C10_Witness ==
    /\ now > MaxHistory
    /\ undoCalls >= MaxHistory
    /\ last.op = "undo"

\* The entries of a stack as values: action type, timestamp, cell values.
StackValues(h, hs) ==
    [e \in 1..Len(hs) |->
        [actionType |-> hs[e].actionType, timestamp |-> hs[e].timestamp,
         cells |-> GridValues(h, hs[e].data)]]

\* C11: undo moves the cursor down by one and makes the snapshot under the new
\* cursor the live grid exactly when canUndo holds, redo moves it up by one exactly
\* when canRedo holds; otherwise the call leaves the live grid, the stack and the
\* cursor as they are.  Neither call changes the entries of the stack.
C11_UndoRedoOnlyWhenAllowed ==
    [][/\ last'.op = "undo"
            => /\ StackValues(heap', history') = StackValues(heap, history)
               /\ IF canUndo
                  THEN /\ currentIndex' = currentIndex - 1
                       /\ data' = history'[currentIndex' + 1].data
                       /\ GridValues(heap', data') = GridValues(heap, history[currentIndex].data)
                  ELSE /\ currentIndex' = currentIndex
                       /\ data' = data
                       /\ heap' = heap
                       /\ history' = history
       /\ last'.op = "redo"
            => /\ StackValues(heap', history') = StackValues(heap, history)
               /\ IF canRedo
                  THEN /\ currentIndex' = currentIndex + 1
                       /\ data' = history'[currentIndex' + 1].data
                       /\ GridValues(heap', data') = GridValues(heap, history[currentIndex + 2].data)
                  ELSE /\ currentIndex' = currentIndex
                       /\ data' = data
                       /\ heap' = heap
                       /\ history' = history]_vars

\* C11 witness: a redo moved the cursor to the top of a stack of three entries (a
\* further redo is a no-op there).
C11_Witness ==
    /\ last.op = "redo"
    /\ last.moved
    /\ ~canRedo
    /\ Len(history) = 3

\* C12: after selectCell(p) without Shift, while only moves with Shift held (and
\* Shift changes) follow, the selection starts at p and ends at the current cell.
C12_AnchorStableUnderExtendingMoves ==
    pin.set =>
        /\ sel.currentCell.set
        /\ sel.selection = Some([start |-> pin.val, end |-> sel.currentCell.val])

\* C12 witness: two extending moves, one along each axis, after selectCell(p).
C12_Witness ==
    /\ pin.set
    /\ last.op = "moveSelection"
    /\ sel.isShiftPressed
    /\ sel.currentCell.val.row # pin.val.row
    /\ sel.currentCell.val.col # pin.val.col

\* C13: while a drag opened by handleMouseDown (with or without Shift) is going
\* on, handleMouseMove(pos) leaves the anchor as it is and sets the selection to
\* {start: anchor, end: pos}.
C13_DragKeepsAnchor ==
    [][(last'.op = "handleMouseMove" /\ sel.isDragging /\ sel.dragStartRef.set)
          => /\ sel'.selectionAnchor = sel.selectionAnchor
             /\ sel'.selection = Some([start |-> sel.selectionAnchor.val,
                                       end |-> last'.args[1]])]_vars

\* Distance between two cells, in steps.
Distance(p, q) ==
    (IF p.row > q.row THEN p.row - q.row ELSE q.row - p.row)
        + (IF p.col > q.col THEN p.col - q.col ELSE q.col - p.col)

\* C14: moveSelection with a current cell moves it by at most one step and keeps
\* it on the grid; without Shift the selection afterwards is the single cell
\* {c, c} at the new current cell c and the anchor is c, also when the step is
\* clamped at an edge and when the selection spanned several cells before.
C14_MoveCollapsesSelection ==
    [][(last'.op = "moveSelection" /\ sel.currentCell.set)
          => /\ sel'.currentCell.set
             /\ Distance(sel.currentCell.val, sel'.currentCell.val) <= 1
             /\ sel'.currentCell.val \in GridPositions
             /\ ~sel.isShiftPressed
                   => /\ sel'.selectionAnchor = sel'.currentCell
                      /\ sel'.selection = Some([start |-> sel'.currentCell.val,
                                                end |-> sel'.currentCell.val])]_vars

\* C15: selectCell(pos) makes pos the current cell; with Shift held and an anchor
\* present the selection becomes {start: anchor, end: pos} and the anchor stays,
\* otherwise the anchor becomes pos and the selection {pos, pos}.
C15_SelectCell ==
    [][last'.op = "selectCell"
          => /\ sel'.currentCell = Some(last'.args[1])
             /\ IF sel.isShiftPressed /\ sel.selectionAnchor.set
                THEN /\ sel'.selectionAnchor = sel.selectionAnchor
                     /\ sel'.selection = Some([start |-> sel.selectionAnchor.val,
                                               end |-> last'.args[1]])
                ELSE /\ sel'.selectionAnchor = Some(last'.args[1])
                     /\ sel'.selection = Some([start |-> last'.args[1],
                                               end |-> last'.args[1]])]_vars

\* C15 witness: a selectCell with Shift held extended the selection from the
\* anchor, after an earlier selection was replaced by a selectCell without Shift.
C15_Witness ==
    /\ last.op = "selectCell"
    /\ sel.isShiftPressed
    /\ sel.selectionAnchor.set
    /\ sel.selectionAnchor.val # Pos(0, 0)
    /\ sel.selection.val.start = sel.selectionAnchor.val
    /\ sel.selection.val.end = sel.currentCell.val
    /\ sel.currentCell.val # sel.selectionAnchor.val

\* What a handler leaves after its render, as values: the live grid, the stack
\* and the cursor.
Outcome(ctx) ==
    [grid |-> GridValues(ctx.heap, IF ctx.setData.set THEN ctx.setData.val ELSE ctx.data),
     stack |-> StackValues(ctx.heap, IF ctx.setHistory.set THEN ctx.setHistory.val
                                     ELSE ctx.history),
     cursor |-> IF ctx.setCurrentIndex.set THEN ctx.setCurrentIndex.val
                ELSE ctx.currentIndex]

\* C16: a paste whose clipboard read resolves after other handlers were committed
\* is applied to the grid, the stack and the current cell as they are when the
\* text arrives: it leaves what the same paste started at that moment leaves.
C16_PasteUsesLatestState ==
    [][last'.op = "pasteResolve"
          => [grid |-> GridValues(heap', data'),
              stack |-> StackValues(heap', history'),
              cursor |-> currentIndex']
               = Outcome(pasteToSelectedCells(Ctx0, sel.currentCell.val, last'.args[1]))]_vars

\* C17: when the clipboard read of a paste rejects, the cells of the live grid,
\* the entries of the stack, the cursor and the selection stay as they are, and
\* no paste is left waiting, so a later Ctrl+V starts a new one.
C17_RejectedReadChangesNothing ==
    [][last'.op = "pasteReject"
          => /\ GridValues(heap', data') = GridValues(heap, data)
             /\ StackValues(heap', history') = StackValues(heap, history)
             /\ currentIndex' = currentIndex
             /\ sel' = sel
             /\ ~pending'.active]_vars

\* C17 witness: a read was rejected after an edit was committed while the paste
\* was waiting.
C17_Witness ==
    /\ last.op = "pasteReject"
    /\ Len(history) = 2
    /\ currentIndex = 1
    /\ sel.currentCell.set

\* Cell (row, col), 0-based, lies in the rectangle of a selection.
InSelection(selection, row, col) ==
    /\ row >= TopLeft(selection).row
    /\ row < TopLeft(selection).row + SelectedRows(selection)
    /\ col >= TopLeft(selection).col
    /\ col < TopLeft(selection).col + SelectedCols(selection)

\* The decoded rows of a pasted clipboard text.
Payload(text) == Decode(text)

PlacedOnce(new, old, row, r, c) ==
    /\ Len(new) = Len(old)
    /\ \A j \in 1..Len(row) : /\ c + j <= Len(new[r + 1])
                              /\ new[r + 1][c + j] = row[j]
    /\ \A i \in 1..Len(new) :
          i # r + 1
             => \A j \in 1..Len(new[i]) :
                   new[i][j] = IF j <= Len(old[i]) THEN old[i][j] ELSE <<>>

C22_PasteStartsAtTopLeft ==
    [][(/\ last'.op = "pasteToSelectedCells"
        /\ Payload(last'.args[2]) # <<>>)
          => LET new == GridValues(heap', data')
                 anchor == IF sel.selection.set THEN TopLeft(sel.selection.val)
                           ELSE sel.currentCell.val
             IN new[anchor.row + 1][anchor.col + 1] = Payload(last'.args[2])[1][1]]_vars

\* A cell value with CRLF and CR turned into LF and the LFs at its end removed.
RECURSIVE WithLineFeeds(_)
WithLineFeeds(v) ==
    IF v = <<>> THEN <<>>
    ELSE IF Head(v) = "\r"
         THEN <<LF>> \o WithLineFeeds(IF Len(v) > 1 /\ v[2] = LF THEN Tail(Tail(v))
                                      ELSE Tail(v))
         ELSE <<Head(v)>> \o WithLineFeeds(Tail(v))

RECURSIVE WithoutTrailingLineFeeds(_)
WithoutTrailingLineFeeds(v) ==
    IF v # <<>> /\ v[Len(v)] = LF
    THEN WithoutTrailingLineFeeds(SubSeq(v, 1, Len(v) - 1))
    ELSE v

Normalised(v) == WithoutTrailingLineFeeds(WithLineFeeds(v))

\* v between double quotes, each double quote of v written twice.
RECURSIVE Doubled(_)
Doubled(v) ==
    IF v = <<>> THEN <<>>
    ELSE (IF Head(v) = QUOTE THEN <<QUOTE, QUOTE>> ELSE <<Head(v)>>) \o Doubled(Tail(v))

Quoted(v) == <<QUOTE>> \o Doubled(v) \o <<QUOTE>>

InsideQuotes(t, k) == Cardinality({m \in 1..(k - 1) : t[m] = QUOTE}) % 2 = 1

\* The TABs (sep = TAB) or LFs (sep = LF) of t that are outside quotes.
BreaksOf(t, sep) == {k \in 1..Len(t) : t[k] = sep /\ ~InsideQuotes(t, k)}

\* The character at k of t is cell content: any character but a double quote
\* and a break, and the first double quote of a doubled one inside quotes.
IsContent(t, k) ==
    IF t[k] = QUOTE
    THEN InsideQuotes(t, k) /\ k < Len(t) /\ t[k + 1] = QUOTE
    ELSE k \notin BreaksOf(t, TAB) \cup BreaksOf(t, LF)

\* The content between the (f-1)-th and the f-th break of t.
ContentOfField(t, f) ==
    LET breaks == BreaksOf(t, TAB) \cup BreaksOf(t, LF)
        pick[i \in 0..Len(t)] ==
            IF i = 0 THEN <<>>
            ELSE IF IsContent(t, i) /\ Cardinality({m \in breaks : m < i}) = f - 1
                 THEN Append(pick[i - 1], t[i])
                 ELSE pick[i - 1]
    IN pick[Len(t)]

C26_EmptyLineOccupiesRow ==
    [][last'.op = "pasteToSelectedCells" =>
        LET anchor == last'.args[1]
            lines == split(last'.args[2], LF)
            new == GridValues(heap', data')
            written(k, v) ==
                (anchor.row + k <= Len(new) /\ anchor.col + 1 <= Len(new[anchor.row + k]))
                    => new[anchor.row + k][anchor.col + 1] = v
        IN \A i \in 2..(Len(lines) - 1) :
              (lines[i] = <<>> /\ lines[i - 1] # <<>> /\ lines[i + 1] # <<>>) =>
                  /\ written(i, <<>>)
                  /\ \A k \in (i + 1)..Len(lines) :
                        lines[k] # <<>> => written(k, split(lines[k], TAB)[1])
    ]_vars

C28_UpdateCellOutOfRange ==
    [][(/\ last'.op = "updateCell"
        /\ \/ last'.args[1] < 0
           \/ last'.args[1] >= Len(data)
           \/ last'.args[2] < 0
           \/ last'.args[2] >= Len(heap[data[1]]))
       => /\ GridValues(heap', data') = GridValues(heap, data)
          /\ StackValues(heap', history') = StackValues(heap, history)
          /\ Len(history') = Len(history)
          /\ currentIndex' = currentIndex
          /\ last'.pushCalls = 0
    ]_vars

\* C28 witness: after a cell was written, updateCell was called with the row
\* just below the grid and nothing was pushed.
C28_Witness ==
    /\ last.op = "updateCell"
    /\ last.args[1] = Len(data)
    /\ last.args[2] = 0
    /\ last.pushCalls = 0
    /\ currentIndex = 1
    /\ \E i \in 1..Len(data) : heap[data[i]][1].value = <<"a">>

\* The position p is outside the grid of the current state.
OutsideGrid(p) == p.row < 0 \/ p.row >= Len(data) \/ p.col < 0 \/ p.col >= Len(heap[data[1]])

C30_NeverBelowOneByOne ==
    /\ [](/\ Len(data) >= 1
          /\ \A i \in 1..Len(data) : Len(heap[data[i]]) >= 1)
    /\ [][(\/ last'.op = "removeRow" /\ Len(data) = 1
           \/ last'.op = "removeColumn" /\ Len(heap[data[1]]) = 1)
          => /\ GridValues(heap', data') = GridValues(heap, data)
             /\ StackValues(heap', history') = StackValues(heap, history)
             /\ Len(history') = Len(history)
             /\ currentIndex' = currentIndex
             /\ last'.pushCalls = 0
       ]_vars

\* C31: removeColumn called right after addColumn gives back the grid that
\* addColumn started from: the same number of rows and columns and the same
\* value in every cell.
C31_AddThenRemoveColumn ==
    [][(last.op = "addColumn" /\ last'.op = "removeColumn")
       => GridValues(heap', data') = before
    ]_vars

\* C31 witness: on a grid holding a value, a column was added and removed again.
C31_Witness ==
    /\ last.op = "removeColumn"
    /\ last.pushCalls = 1
    /\ currentIndex = 3
    /\ Len(history) = 4
    /\ history[3].actionType = "ADD_COLUMN"
    /\ Len(before[1]) = Len(heap[data[1]]) + 1
    /\ \E i \in 1..Len(data) : \E j \in 1..Len(heap[data[i]]) :
          heap[data[i]][j].value = <<"a">>

\* C32: setCellWidth and updateAllCellWidths push no history entry, leave the
\* cursor where it is and change neither a cell value nor the number of rows
\* or of cells in a row.
C32_WidthChangesOnlyWidths ==
    [][last'.op \in {"setCellWidth", "updateAllCellWidths"}
       => /\ last'.pushCalls = 0
          /\ Len(history') = Len(history)
          /\ currentIndex' = currentIndex
          /\ GridValues(heap', data') = GridValues(heap, data)
    ]_vars

\* C37: setCellWidth with a column index outside the grid (negative, or not
\* below the number of columns) creates no cell and leaves every row of the
\* live grid as it was, cell by cell (value, width, isEditing).
C37_SetCellWidthOutOfRange ==
    [][(/\ last'.op = "setCellWidth"
        /\ \/ last'.args[1] < 0
           \/ last'.args[1] >= Len(heap[data[1]]))
       => /\ Len(data') = Len(data)
          /\ \A i \in 1..Len(data) : heap'[data'[i]] = heap[data[i]]
    ]_vars

\* n lies between a and b, whichever of the two is the smaller.
Between(n, a, b) == (a <= n /\ n <= b) \/ (b <= n /\ n <= a)

\* C33: isCellSelected(r, c) is true exactly for the cells of the closed
\* rectangle between the two corners of the selection, in any orientation;
\* getSelectedCellPositions lists exactly those cells, each once,
\* (|start.row - end.row| + 1) * (|start.col - end.col| + 1) in all; without a
\* selection no cell is selected and the list is empty.
C33_MembershipAndPositions ==
    LET positions == getSelectedCellPositions(sel)
        listed == {positions[k] : k \in 1..Len(positions)}
        cells == [row : -1..MaxRows, col : -1..MaxCols]
    IN IF sel.selection.set
       THEN LET start == sel.selection.val.start
                end == sel.selection.val.end
            IN /\ \A p \in cells :
                     isCellSelected(sel, p.row, p.col)
                         <=> (Between(p.row, start.row, end.row) /\
                              Between(p.col, start.col, end.col))
               /\ listed = {p \in cells : isCellSelected(sel, p.row, p.col)}
               /\ Cardinality(listed) = Len(positions)
               /\ Len(positions) = (Distance(Pos(start.row, 0), Pos(end.row, 0)) + 1)
                                       * (Distance(Pos(0, start.col), Pos(0, end.col)) + 1)
       ELSE /\ \A p \in cells : ~isCellSelected(sel, p.row, p.col)
            /\ positions = <<>>

\* C33 witness: a selection dragged from the bottom right to the top left of
\* a 2x2 grid; all four cells are selected and listed.
C33_Witness ==
    /\ sel.selection = Some([start |-> Pos(1, 1), end |-> Pos(0, 0)])
    /\ isCellSelected(sel, 0, 1)
    /\ Len(getSelectedCellPositions(sel)) = 4

\* C34: handleMouseMove while no drag is in progress changes nothing of the
\* selection state; handleMouseUp ends the drag and leaves currentCell,
\* selection and anchor as they were.
C34_DragSession ==
    [][/\ (last'.op = "handleMouseMove" /\ ~sel.isDragging) => sel' = sel
       /\ last'.op = "handleMouseUp"
            => /\ ~sel'.isDragging
               /\ sel'.currentCell = sel.currentCell
               /\ sel'.selection = sel.selection
               /\ sel'.selectionAnchor = sel.selectionAnchor
    ]_vars

\* C34 witness: a drag over two cells was ended; the selection is still there
\* and a later mouse move left it alone.
C34_Witness ==
    /\ last.op = "handleMouseMove"
    /\ ~sel.isDragging
    /\ sel.selection.set
    /\ sel.selection.val.start # sel.selection.val.end
    /\ sel.currentCell = Some(sel.selection.val.end)
    /\ last.args[1] # sel.selection.val.end

\* C39: currentCell, selection and anchor are all null or all non-null; while
\* isDragging is true they are non-null; after clearSelection all three are
\* null and isDragging is false.
C39_NullConsistency ==
    /\ sel.currentCell.set = sel.selection.set
    /\ sel.selection.set = sel.selectionAnchor.set
    /\ sel.isDragging => sel.currentCell.set
    /\ last.op = "clearSelection"
         => /\ ~sel.currentCell.set
            /\ ~sel.selection.set
            /\ ~sel.selectionAnchor.set
            /\ ~sel.isDragging

\* C39 witness: the selection was cleared while Shift was held.
C39_Witness ==
    /\ last.op = "clearSelection"
    /\ ~sel.currentCell.set
    /\ ~sel.isDragging
    /\ sel.isShiftPressed

\* C40: whenever there is a selection, currentCell is a cell of its rectangle;
\* after selectCell, handleMouseDown, moveSelection and a handleMouseMove during
\* a drag it is the end of the selection, and after selectAllCells it is its
\* start (0, 0), the selection covering every cell of the grid.
C40_CurrentCellInsideSelection ==
    /\ [](sel.selection.set =>
            /\ sel.currentCell.set
            /\ InSelection(sel.selection.val, sel.currentCell.val.row,
                           sel.currentCell.val.col))
    /\ [][/\ (/\ \/ last'.op \in {"selectCell", "handleMouseDown", "moveSelection"}
                  \/ (last'.op = "handleMouseMove" /\ sel.isDragging)
               /\ sel'.selection.set)
              => sel'.currentCell = Some(sel'.selection.val.end)
          /\ (last'.op = "selectAllCells" /\ sel'.selection.set)
              => /\ sel'.currentCell = Some(Pos(0, 0))
                 /\ sel'.selection.val =
                        [start |-> Pos(0, 0),
                         end |-> Pos(Len(data) - 1, Len(heap[data[1]]) - 1)]
       ]_vars

\* The cell new is the cell old with the value v and nothing else changed.
SameButValue(old, new, v) ==
    /\ DOMAIN new = DOMAIN old \cup {"value"}
    /\ new.value = v
    /\ \A k \in DOMAIN old \ {"value"} : new[k] = old[k]

\* C36: updateCell(r, c, v) in range changes only the value of cell (r, c), and
\* updateMultipleCells(positions, v) only the values of the cells of positions
\* that are in range, the out-of-range ones being skipped: every other cell
\* (value, width, isEditing), the width and isEditing of the written cells and
\* the numbers of rows and columns stay as they were.
C36_OnlyListedValuesChange ==
    [][last'.op \in {"updateCell", "updateMultipleCells"} =>
        LET rows == Len(data)
            cols == Len(heap[data[1]])
            listed == IF last'.op = "updateCell"
                      THEN {Pos(last'.args[1], last'.args[2])}
                      ELSE {last'.args[1][k] : k \in 1..Len(last'.args[1])}
            v == IF last'.op = "updateCell" THEN last'.args[3] ELSE last'.args[2]
            targets == {p \in listed : p.row >= 0 /\ p.row < rows /\ p.col >= 0 /\ p.col < cols}
        IN /\ Len(data') = rows
           /\ \A i \in 1..rows :
                /\ Len(heap'[data'[i]]) = Len(heap[data[i]])
                /\ \A j \in 1..Len(heap[data[i]]) :
                     IF Pos(i - 1, j - 1) \in targets
                     THEN SameButValue(heap[data[i]][j], heap'[data'[i]][j], v)
                     ELSE heap'[data'[i]][j] = heap[data[i]][j]
    ]_vars

\* C36 witness: on a 2x2 grid whose second column has a width,
\* updateMultipleCells wrote (0, 1) and left the other cells alone.
C36_Witness ==
    /\ last.op = "updateMultipleCells"
    /\ last.args = << <<Pos(0, 1)>>, <<"a">> >>
    /\ Len(data) = 2
    /\ heap[data[1]] = << [value |-> <<>>, isEditing |-> FALSE],
                          [value |-> <<"a">>, isEditing |-> FALSE, width |-> 120] >>
    /\ heap[data[2]] = << [value |-> <<>>, isEditing |-> FALSE],
                          [value |-> <<>>, isEditing |-> FALSE, width |-> 120] >>

InGrid(p) == p.row >= 0 /\ p.row < Rows /\ p.col >= 0 /\ p.col < Cols

\* C35: in every reachable state of the assembled table the current cell and
\* both corners of the selection, when set, lie inside the live grid, so that
\* reading data[currentCell.row][currentCell.col] cannot fail.
C35_SelectionInsideGrid ==
    /\ sel.currentCell.set => InGrid(sel.currentCell.val)
    /\ sel.selection.set =>
          InGrid(sel.selection.val.start) /\ InGrid(sel.selection.val.end)

\* The handlers a keydown called, as recorded by the last step.
Dispatched == last.args[2]

Handlers(calls) == {calls[i].handler : i \in 1..Len(calls)}

\* C38: a keydown while an IME composition is active calls no handler; a keydown
\* in edit mode calls stopEditing(false) on Escape, stopEditing(true) then
\* moveSelection('down') on Enter without Shift or Alt, stopEditing(true) then
\* moveSelection('right') on Tab ('left' with Shift), and on any other key calls
\* none of moveSelection, clearSelectedCells, copy, cut, paste, undo, redo,
\* selectAllCells, clearSelection or stopEditing.
C38_EditModeDispatch ==
    last.op = "handleKeyDown" =>
        LET e == last.args[1]
        IN  /\ keyboard.isComposingRef => Dispatched = <<>>
            /\ (keyboard.isEditingRef /\ ~keyboard.isComposingRef) =>
                  CASE e.key = "Escape" ->
                           Dispatched = <<Call("stopEditing", <<FALSE>>)>>
                    [] e.key = "Enter" /\ ~e.shiftKey /\ ~e.altKey ->
                           Dispatched = <<Call("stopEditing", <<TRUE>>),
                                          Call("moveSelection", <<"down">>)>>
                    [] e.key = "Tab" /\ ~e.shiftKey ->
                           Dispatched = <<Call("stopEditing", <<TRUE>>),
                                          Call("moveSelection", <<"right">>)>>
                    [] e.key = "Tab" /\ e.shiftKey ->
                           Dispatched = <<Call("stopEditing", <<TRUE>>),
                                          Call("moveSelection", <<"left">>)>>
                    [] OTHER ->
                           Handlers(Dispatched) \cap
                               {"stopEditing", "moveSelection", "clearSelectedCells",
                                "copySelectedCells", "cutSelectedCells",
                                "pasteToSelectedCells", "undo", "redo",
                                "selectAllCells", "clearSelection"} = {}

\* C38 witness: Enter was pressed in edit mode with no composition active, and
\* the edit was committed and the selection moved down.
C38_Witness ==
    /\ last.op = "handleKeyDown"
    /\ keyboard.isEditingRef /\ ~keyboard.isComposingRef
    /\ last.args[1].key = "Enter" /\ ~last.args[1].shiftKey /\ ~last.args[1].altKey
    /\ Len(Dispatched) = 2

====
